---- MODULE Spec2Model ----
(***************************************************************************)
(* Verification model of the oops-lang interpreter core:                   *)
(*   - the class-table builder   (src/src/prep/mod.rs)                      *)
(*   - the tree-walking evaluator (src/src/interpret/mod.rs)                *)
(*   - method resolution          (Class::get_method_named)                 *)
(***************************************************************************)
EXTENDS Integers, Sequences, FiniteSets, TLC

VARIABLES
    ast,        \* the program handed to the builder (Vec<Stmt>)
    pc,         \* position of the builder: which pass / loop it is in
    idx,        \* index of the statement visit_ast is at
    table,      \* FindClasses.table / FindMethods.classes
    acc,        \* setup_super_classes: the local `acc` map
    todo,       \* setup_super_classes: keys the first loop has not yet seen
    result,     \* what the running stage returned (None while running)
    stack,      \* the evaluator's activation frames, the innermost last
    heap,       \* the Instance records New has allocated (Rc<Instance>)
    resolved,   \* the answer of the last get_method_named query
    tokens,     \* ParseStream.tokens
    current_position,  \* ParseStream.current_position
    called      \* the ParseStream method called last, and what it returned

vars == <<ast, pc, idx, table, acc, todo, result, stack, heap, resolved,
          tokens, current_position, called>>

prepVars == <<idx, acc, todo>>
evalVars == <<stack, heap>>
streamVars == <<tokens, current_position, called>>

(***************************************************************************)
(* Bounds and input universes                                              *)
(***************************************************************************)
MaxStmts == 3
MaxArgs == 2
MaxBody == 2
MaxDepth == 3
MaxClasses == 2

\* Option<T>; SomeClass is Some(Rc<Class>), the handle being the table key
None == [k |-> "None"]
Some(x) == [k |-> "Some", v |-> x]
SomeClass(c) == [k |-> "Some", rc |-> c]

\* Span::new
Span(from, to) == [from |-> from, to |-> to]

\* the span of the i-th statement of a program: statements do not overlap
StmtSpan(i) == Span(10 * i, 10 * i + 9)

\* HashMap helpers (VTable<'a, T> = HashMap<&'a str, T>)
EmptyMap == [x \in {} |-> x]
Insert(m, key, v) == [x \in (DOMAIN m) \cup {key} |-> IF x = key THEN v ELSE m[x]]
Remove(m, key) == [x \in (DOMAIN m) \ {key} |-> m[x]]

\* ast::Block (its parameters kept as their names)
Block(parameters, body) == [parameters |-> parameters, body |-> body]
EmptyBlock == Block(<<>>, <<>>)

\* ast::DefineClass and ast::DefineMethod, as prep/mod.rs reads them
DefineClassStmt(n, s, f) ==
    [k |-> "DefineClass", name |-> n, super_class |-> s, fields |-> f, span |-> Span(0, 0)]

DefineMethodStmt(c, m, b) ==
    [k |-> "DefineMethod", class_name |-> c, method_name |-> m, block |-> b,
     span |-> Span(0, 0)]

\* statements the builder's programs are made of
PrepStmts ==
    {DefineClassStmt("A", s, <<"x">>) : s \in {"Object", "A", "B", "Z"}}
    \cup {DefineClassStmt("B", s, <<>>) : s \in {"Object", "A"}}
    \cup {DefineClassStmt("Object", "Object", <<>>)}
    \cup {DefineMethodStmt(c, "m", EmptyBlock) : c \in {"A", "B", "Object", "Z"}}

\* a program: every statement carries the span of its position
WithSpans(p) == [i \in 1..Len(p) |-> [p[i] EXCEPT !.span = StmtSpan(i)]]

PrepPrograms == UNION {[1..n -> PrepStmts] : n \in 0..MaxStmts}

(***************************************************************************)
(* Class descriptors (prep::Class)                                         *)
(***************************************************************************)
\* main.rs built_in_class: Object, no fields, no methods, no super class
built_in_class ==
    [name |-> "Object", super_class_name |-> "Object", super_class |-> None,
     fields |-> {}, methods |-> EmptyMap, span |-> Span(0, 0)]

built_in_classes == Insert(EmptyMap, "Object", built_in_class)

\* Class::new
Class_new(name, super_class_name, fields, span) ==
    [name |-> name, super_class_name |-> super_class_name, super_class |-> None,
     fields |-> fields, methods |-> EmptyMap, span |-> span]

\* FindClasses::make_fields: the field names collected into a HashMap
make_fields(node) == {node.fields[i] : i \in DOMAIN node.fields}

\* FindMethods::make_method
make_method(method_name, block, span) ==
    [name |-> method_name, parameters |-> block.parameters, body |-> block.body,
     span |-> span]

\* Rc::strong_count of the descriptor stored under key c: the table's own
\* handle, the clones held by `acc`, and the clones stored as super_class
StrongCount(t, a, c) ==
    1 + Cardinality({d \in DOMAIN a : a[d].super_class = c})
      + Cardinality({d \in DOMAIN t : t[d].super_class = SomeClass(c)})

\* errors (error.rs) and the abort of the process by a panic
Running == [k |-> "None"]
Ok == [k |-> "Ok"]
ClassNotDefined(class, span) == [k |-> "ClassNotDefined", class |-> class, span |-> span]
ClassAlreadyDefined(class, first, second) ==
    [k |-> "ClassAlreadyDefined", class |-> class, first_span |-> first, second_span |-> second]
MethodAlreadyDefined(class, method, first, second) ==
    [k |-> "MethodAlreadyDefined", class |-> class, method |-> method,
     first_span |-> first, second_span |-> second]
Panic(msg) == [k |-> "Panic", msg |-> msg]

(***************************************************************************)
(* find_classes_and_methods                                                *)
(***************************************************************************)
Init ==
    /\ \E p \in PrepPrograms : ast = WithSpans(p)
    /\ pc = "find_classes"
    /\ idx = 1
    /\ table = built_in_classes
    /\ acc = EmptyMap
    /\ todo = {}
    /\ result = Running
    /\ stack = <<>>
    /\ heap = <<>>
    /\ resolved = None
    /\ tokens = <<>>
    /\ current_position = 0
    /\ called = None

\* FindClasses::visit_define_class (with check_for_existing_class_with_same_name)
\* a first pass that reports the two spans of a duplicate the wrong way round
VisitDefineClass_SpansSwapped ==
    /\ pc = "find_classes" /\ result = Running
    /\ idx <= Len(ast) /\ ast[idx].k = "DefineClass"
    /\ LET node == ast[idx]
           key == node.name
       IN IF key \in DOMAIN table
          THEN /\ result' = ClassAlreadyDefined(key, node.span, table[key].span)
               /\ UNCHANGED <<table, idx>>
          ELSE /\ table' = Insert(table, key,
                       Class_new(key, node.super_class, make_fields(node), node.span))
               /\ idx' = idx + 1
               /\ UNCHANGED result
    /\ UNCHANGED <<ast, pc, acc, todo, stack, heap, resolved, streamVars>>

VisitDefineClass ==
    /\ pc = "find_classes" /\ result = Running
    /\ idx <= Len(ast) /\ ast[idx].k = "DefineClass"
    /\ LET node == ast[idx]
           key == node.name
       IN IF key \in DOMAIN table
          THEN /\ result' = ClassAlreadyDefined(key, table[key].span, node.span)
               /\ UNCHANGED <<table, idx>>
          ELSE /\ table' = Insert(table, key,
                       Class_new(key, node.super_class, make_fields(node), node.span))
               /\ idx' = idx + 1
               /\ UNCHANGED result
    /\ UNCHANGED <<ast, pc, acc, todo, stack, heap, resolved, streamVars>>

\* a single pass that looks up the class of a DefineMethod as it meets it
FindClassesSkip_ChecksMethods ==
    /\ pc = "find_classes" /\ result = Running
    /\ idx <= Len(ast) /\ ast[idx].k # "DefineClass"
    /\ IF ast[idx].k = "DefineMethod" /\ ast[idx].class_name \notin DOMAIN table
       THEN /\ result' = ClassNotDefined(ast[idx].class_name, ast[idx].span)
            /\ UNCHANGED idx
       ELSE /\ idx' = idx + 1
            /\ UNCHANGED result
    /\ UNCHANGED <<ast, pc, table, acc, todo, stack, heap, resolved, streamVars>>

\* visit_stmt on a statement FindClasses has no handler for (default no-op)
FindClassesSkip ==
    /\ pc = "find_classes" /\ result = Running
    /\ idx <= Len(ast) /\ ast[idx].k # "DefineClass"
    /\ idx' = idx + 1
    /\ UNCHANGED <<ast, pc, table, acc, todo, result, stack, heap, resolved, streamVars>>

\* find_classes: visit_ast is over, setup_super_classes starts
SetupSuperClassesBegin ==
    /\ pc = "find_classes" /\ result = Running
    /\ idx > Len(ast)
    /\ pc' = "lookup"
    /\ acc' = EmptyMap
    /\ todo' = DOMAIN table
    /\ UNCHANGED <<ast, idx, table, result, stack, heap, resolved, streamVars>>

\* a first loop that stores each handle as soon as it has looked it up
SetupLookup_Eager ==
    /\ pc = "lookup" /\ result = Running
    /\ \E class_name \in todo :
         LET class == table[class_name]
             super_class_name == class.super_class_name
         IN /\ todo' = todo \ {class_name}
            /\ IF class_name = "Object"
               THEN UNCHANGED <<acc, result, table>>
               ELSE IF super_class_name \notin DOMAIN table
                    THEN /\ result' = ClassNotDefined(super_class_name, class.span)
                         /\ UNCHANGED <<acc, table>>
                    ELSE /\ acc' = Insert(acc, class_name,
                                 [super_class |-> super_class_name, span |-> class.span])
                         /\ table' = [table EXCEPT ![class_name].super_class =
                                          SomeClass(super_class_name)]
                         /\ UNCHANGED result
    /\ UNCHANGED <<ast, pc, idx, stack, heap, resolved, streamVars>>

\* setup_super_classes, one iteration of the first loop; the HashMap
\* yields its keys in an unspecified order
SetupLookup ==
    /\ pc = "lookup" /\ result = Running
    /\ \E class_name \in todo :
         LET class == table[class_name]
             super_class_name == class.super_class_name
         IN /\ todo' = todo \ {class_name}
            /\ IF class_name = "Object"
               THEN UNCHANGED <<acc, result>>
               ELSE IF super_class_name \notin DOMAIN table
                    THEN /\ result' = ClassNotDefined(super_class_name, class.span)
                         /\ UNCHANGED acc
                    ELSE /\ acc' = Insert(acc, class_name,
                                 [super_class |-> super_class_name, span |-> class.span])
                         /\ UNCHANGED result
    /\ UNCHANGED <<ast, pc, idx, table, stack, heap, resolved, streamVars>>

\* setup_super_classes: the first loop is over
SetupLookupEnd ==
    /\ pc = "lookup" /\ result = Running
    /\ todo = {}
    /\ pc' = "patch"
    /\ UNCHANGED <<ast, idx, table, acc, todo, result, stack, heap, resolved, streamVars>>

\* a second loop that stores the handle whatever other handles exist
SetupPatch_Unchecked ==
    /\ pc = "patch" /\ result = Running
    /\ \E class_name \in DOMAIN acc :
         /\ acc' = Remove(acc, class_name)
         /\ table' = [table EXCEPT ![class_name].super_class =
                          SomeClass(acc[class_name].super_class)]
         /\ UNCHANGED result
    /\ UNCHANGED <<ast, pc, idx, todo, stack, heap, resolved, streamVars>>

\* setup_super_classes, one iteration of the second loop: Rc::get_mut gives
\* the descriptor only when no other handle to it exists
SetupPatch ==
    /\ pc = "patch" /\ result = Running
    /\ \E class_name \in DOMAIN acc :
         /\ acc' = Remove(acc, class_name)
         /\ IF StrongCount(table, acc, class_name) # 1
            THEN /\ result' = Panic("Internal error: Rc borrowed mut more than once")
                 /\ UNCHANGED table
            ELSE /\ table' = [table EXCEPT ![class_name].super_class =
                                   SomeClass(acc[class_name].super_class)]
                 /\ UNCHANGED result
    /\ UNCHANGED <<ast, pc, idx, todo, stack, heap, resolved, streamVars>>

\* find_classes returns the table, find_methods starts its visit_ast
FindMethodsBegin ==
    /\ pc = "patch" /\ result = Running
    /\ DOMAIN acc = {}
    /\ pc' = "find_methods"
    /\ idx' = 1
    /\ UNCHANGED <<ast, table, acc, todo, result, stack, heap, resolved, streamVars>>

\* FindMethods::visit_define_method (with check_for_existing_method_with_same_name)
VisitDefineMethod ==
    /\ pc = "find_methods" /\ result = Running
    /\ idx <= Len(ast) /\ ast[idx].k = "DefineMethod"
    /\ LET node == ast[idx]
           key == node.method_name
           class_name == node.class_name
       IN IF class_name \notin DOMAIN table
          THEN /\ result' = ClassNotDefined(class_name, node.span)
               /\ UNCHANGED <<table, idx>>
          ELSE IF key \in DOMAIN table[class_name].methods
          THEN /\ result' = MethodAlreadyDefined(table[class_name].name, key,
                                table[class_name].methods[key].span, node.span)
               /\ UNCHANGED <<table, idx>>
          ELSE IF StrongCount(table, acc, class_name) # 1
          THEN /\ result' = Panic("Internal error: FindMethods.classes borrowed mut more than once")
               /\ UNCHANGED <<table, idx>>
          ELSE /\ table' = [table EXCEPT ![class_name].methods =
                                 Insert(@, key, make_method(key, node.block, node.span))]
               /\ idx' = idx + 1
               /\ UNCHANGED result
    /\ UNCHANGED <<ast, pc, acc, todo, stack, heap, resolved, streamVars>>

\* visit_stmt on a statement FindMethods has no handler for (default no-op)
FindMethodsSkip ==
    /\ pc = "find_methods" /\ result = Running
    /\ idx <= Len(ast) /\ ast[idx].k # "DefineMethod"
    /\ idx' = idx + 1
    /\ UNCHANGED <<ast, pc, table, acc, todo, result, stack, heap, resolved, streamVars>>

\* find_methods returns Ok(f.classes)
FindMethodsEnd ==
    /\ pc = "find_methods" /\ result = Running
    /\ idx > Len(ast)
    /\ result' = Ok
    /\ UNCHANGED <<ast, pc, idx, table, acc, todo, stack, heap, resolved, streamVars>>

Next ==
    \/ VisitDefineClass
    \/ FindClassesSkip
    \/ SetupSuperClassesBegin
    \/ SetupLookup
    \/ SetupLookupEnd
    \/ SetupPatch
    \/ FindMethodsBegin
    \/ VisitDefineMethod
    \/ FindMethodsSkip
    \/ FindMethodsEnd

Spec == Init /\ [][Next]_vars

(***************************************************************************)
(* The AST the evaluator runs (ast/mod.rs)                                 *)
(***************************************************************************)
LetLocal(ident, body) ==
    [k |-> "LetLocal", ident |-> ident, body |-> body, span |-> Span(0, 0)]
LetIVar(ident, body) ==
    [k |-> "LetIVar", ident |-> ident, body |-> body, span |-> Span(0, 0)]
MessageSendStmt(expr) == [k |-> "MessageSend", expr |-> expr, span |-> Span(0, 0)]
Return(expr) == [k |-> "Return", expr |-> expr, span |-> Span(0, 0)]

Local(name, span) == [k |-> "Local", name |-> name, span |-> span]
Number(n, span) == [k |-> "Number", number |-> n, span |-> span]
List(items, span) == [k |-> "List", items |-> items, span |-> span]
True(span) == [k |-> "True", span |-> span]
False(span) == [k |-> "False", span |-> span]
Self_(span) == [k |-> "Self_", span |-> span]
IVar(ident, span) == [k |-> "IVar", ident |-> ident, span |-> span]
BlockExpr(block, span) == [k |-> "Block", block |-> block, span |-> span]
\* class_name_span is the span of the ClassName identifier (class_name.0.span)
ClassNew(class_name, class_name_span, args, span) ==
    [k |-> "ClassNew", class_name |-> class_name, class_name_span |-> class_name_span,
     args |-> args, span |-> span]
MessageSend(receiver, msg, args, span) ==
    [k |-> "MessageSend", receiver |-> receiver, msg |-> msg, args |-> args, span |-> span]
Argument(ident, expr, span) == [ident |-> ident, expr |-> expr, span |-> span]

(***************************************************************************)
(* Runtime values and errors (interpret/mod.rs, error.rs)                  *)
(***************************************************************************)
ValueNumber(n) == [k |-> "Number", number |-> n]
ValueTrue == [k |-> "True"]
ValueFalse == [k |-> "False"]
ValueNil == [k |-> "Nil"]
ValueList(items) == [k |-> "List", items |-> items]
\* Value::Instance(Rc<Instance>): the handle is the index of the record in heap
ValueInstance(id) == [k |-> "Instance", id |-> id]

\* struct Instance
Instance(class, ivars) == [class |-> class, ivars |-> ivars]

\* Value::to_owned: scalars are copied, List and Instance copy the handle
to_owned(v) ==
    CASE v.k = "Number" -> ValueNumber(v.number)
      [] v.k = "List" -> ValueList(v.items)
      [] v.k = "True" -> ValueTrue
      [] v.k = "False" -> ValueFalse
      [] v.k = "Nil" -> ValueNil
      [] v.k = "Instance" -> ValueInstance(v.id)

UndefinedLocal(name, span) == [k |-> "UndefinedLocal", name |-> name, span |-> span]
MissingArgument(name, span) == [k |-> "MissingArgument", name |-> name, span |-> span]
UnexpectedArgument(name, span) == [k |-> "UnexpectedArgument", name |-> name, span |-> span]
NoSelf(span) == [k |-> "NoSelf", span |-> span]
MessageSentToNonInstance(span) == [k |-> "MessageSentToNonInstance", span |-> span]
UndefinedMethod(class, method, span) ==
    [k |-> "UndefinedMethod", class |-> class, method |-> method, span |-> span]
IVarAccessedOutsideMethod(name, span) ==
    [k |-> "IVarAccessedOutsideMethod", name |-> name, span |-> span]
UndefinedIVar(name, span) == [k |-> "UndefinedIVar", name |-> name, span |-> span]
\* the host call stack is exhausted by nested message sends
StackOverflow == [k |-> "StackOverflow"]

(***************************************************************************)
(* Pure parts of the evaluator                                             *)
(***************************************************************************)
\* Interpreter::lookup_class
lookup_class(classes, name, call_site) ==
    IF name \in DOMAIN classes
    THEN [k |-> "Ok", rc |-> name]
    ELSE ClassNotDefined(name, call_site)

\* a resolution that asks the superclass before the class itself
RECURSIVE get_method_named_SuperFirst(_, _, _, _)
get_method_named_SuperFirst(classes, c, method_name, call_site) ==
    LET self == classes[c]
        inherited == IF self.super_class # None
                     THEN get_method_named_SuperFirst(classes, self.super_class.rc,
                                                      method_name, call_site)
                     ELSE UndefinedMethod(self.name, method_name, call_site)
    IN IF inherited.k = "Ok"
       THEN inherited
       ELSE IF method_name \in DOMAIN self.methods
       THEN [k |-> "Ok", found |-> self.methods[method_name]]
       ELSE inherited

\* Class::get_method_named, on the descriptor stored under key c
RECURSIVE get_method_named(_, _, _, _)
get_method_named(classes, c, method_name, call_site) ==
    LET self == classes[c]
    IN IF method_name \in DOMAIN self.methods
       THEN [k |-> "Ok", found |-> self.methods[method_name]]
       ELSE IF self.super_class # None
       THEN get_method_named(classes, self.super_class.rc, method_name, call_site)
       ELSE UndefinedMethod(self.name, method_name, call_site)

\* a binding that leaves a parameter without argument unbound
RECURSIVE bind_parameters_Lenient(_, _, _, _)
bind_parameters_Lenient(parameters, call_site, arg_values, ivars) ==
    IF parameters = <<>>
    THEN [k |-> "Ok", ivars |-> ivars, rest |-> arg_values]
    ELSE LET param == Head(parameters)
         IN IF param \notin DOMAIN arg_values
            THEN bind_parameters_Lenient(Tail(parameters), call_site, arg_values, ivars)
            ELSE bind_parameters_Lenient(Tail(parameters), call_site,
                                         Remove(arg_values, param),
                                         Insert(ivars, param, arg_values[param].value))

\* eval_arguments, second loop: every parameter takes its argument out of
\* arg_values, in the order of `parameters`; the first one without fails
RECURSIVE bind_parameters(_, _, _, _)
bind_parameters(parameters, call_site, arg_values, ivars) ==
    IF parameters = <<>>
    THEN [k |-> "Ok", ivars |-> ivars, rest |-> arg_values]
    ELSE LET param == Head(parameters)
         IN IF param \notin DOMAIN arg_values
            THEN MissingArgument(param, call_site)
            ELSE bind_parameters(Tail(parameters), call_site,
                                 Remove(arg_values, param),
                                 Insert(ivars, param, arg_values[param].value))

\* the orders in which a HashMap may yield the keys of the set S
Orderings(S) ==
    {q \in [1..Cardinality(S) -> S] : \A i, j \in DOMAIN q : i # j => q[i] # q[j]}

(***************************************************************************)
(* Activation frames: an Interpreter and the position of its visit_ast     *)
(***************************************************************************)
NoCur == [t |-> "none"]
ExprCur(e) == [t |-> "expr", e |-> e]
ValCur(v) == [t |-> "val", v |-> v]

\* Interpreter::new: the top-level frame
Interpreter_new_WithSelf(body) ==
    [locals |-> EmptyMap, self_ |-> Some([k |-> "Nil"]), return_value |-> None,
     body |-> body, ip |-> 1, cur |-> [t |-> "none"], kont |-> <<>>]

Interpreter_new(body) ==
    [locals |-> EmptyMap, self_ |-> None, return_value |-> None,
     body |-> body, ip |-> 1, cur |-> NoCur, kont |-> <<>>]

\* a method frame that starts from the caller's locals
copy_for_method_call_Inherit(new_self, locals, body) ==
    [locals |-> [name \in DOMAIN stack[Len(stack)].locals \cup DOMAIN locals |->
                    IF name \in DOMAIN locals THEN locals[name]
                    ELSE stack[Len(stack)].locals[name]],
     self_ |-> Some(new_self), return_value |-> None,
     body |-> body, ip |-> 1, cur |-> NoCur, kont |-> <<>>]

\* Interpreter::copy_for_method_call
copy_for_method_call(new_self, locals, body) ==
    [locals |-> locals, self_ |-> Some(new_self), return_value |-> None,
     body |-> body, ip |-> 1, cur |-> NoCur, kont |-> <<>>]

\* what a frame waits for while a sub-expression is evaluated
KLetLocal(name) == [k |-> "LetLocal", name |-> name]
KMessageSendStmt == [k |-> "MessageSendStmt"]
KReturn == [k |-> "Return"]
KList(done, rest) == [k |-> "List", done |-> done, rest |-> rest]
KReceiver(node) == [k |-> "Receiver", node |-> node]
KArgs(purpose, parameters, call_site, args) ==
    [k |-> "Args", purpose |-> purpose, parameters |-> parameters,
     call_site |-> call_site, args |-> args, i |-> 1, arg_values |-> EmptyMap]
ForNew(class) == [k |-> "New", rc |-> class]
ForSend(receiver, method) == [k |-> "Send", receiver |-> receiver, callee |-> method]
KCall == [k |-> "Call"]

Top == stack[Len(stack)]
SetTop(f) == [stack EXCEPT ![Len(stack)] = f]
Push(f, kont) == [f EXCEPT !.kont = <<kont>> \o @]
Pop(f) == [f EXCEPT !.kont = Tail(@)]

Interpreting == pc = "interpret" /\ result = Running /\ stack # <<>>

\* visit_stmt is about to dispatch on a statement of the given kinds
AtStmt(kinds) ==
    /\ Interpreting
    /\ Top.cur = NoCur /\ Top.kont = <<>>
    /\ Top.ip <= Len(Top.body)
    /\ Top.body[Top.ip].k \in kinds

\* Eval::eval is about to run on an expression of the given kinds
AtExpr(kinds) ==
    /\ Interpreting
    /\ Top.cur.t = "expr"
    /\ Top.cur.e.k \in kinds

\* a sub-expression has returned its value to the code that waits for it
AtValue(kind) ==
    /\ Interpreting
    /\ Top.cur.t = "val"
    /\ Top.kont # <<>> /\ Head(Top.kont).k = kind

\* the same position, in a run that may have ended there with an error
AtValueOf(kind) ==
    /\ stack # <<>>
    /\ Top.cur.t = "val"
    /\ Top.kont # <<>> /\ Head(Top.kont).k = kind

\* a loop over sub-expressions is at its head
AtLoop(kind) ==
    /\ Interpreting
    /\ Top.cur = NoCur
    /\ Top.kont # <<>> /\ Head(Top.kont).k = kind

Fail(err) == result' = err /\ UNCHANGED <<stack, heap>>
Step(f) == stack' = SetTop(f) /\ UNCHANGED <<result, heap>>

(***************************************************************************)
(* Statements: impl Visitor for Interpreter, driven by visit_ast           *)
(***************************************************************************)
NextStmt(f) == [f EXCEPT !.ip = @ + 1, !.cur = NoCur, !.kont = <<>>]

\* visit_let_local, up to the evaluation of the body
VisitLetLocal ==
    /\ AtStmt({"LetLocal"})
    /\ LET node == Top.body[Top.ip]
       IN IF Top.return_value # None
          THEN Step(NextStmt(Top))
          ELSE Step([Top EXCEPT !.cur = ExprCur(node.body),
                                !.kont = <<KLetLocal(node.ident)>>])
    /\ UNCHANGED <<ast, pc, table, resolved, streamVars, prepVars>>

\* visit_let_local, from the value of the body on
FinishLetLocal ==
    /\ AtValue("LetLocal")
    /\ LET name == Head(Top.kont).name
           value == Top.cur.v
       IN Step(NextStmt([Top EXCEPT !.locals = Insert(@, name, value)]))
    /\ UNCHANGED <<ast, pc, table, resolved, streamVars, prepVars>>

\* visit_let_ivar
VisitLetIVar ==
    /\ AtStmt({"LetIVar"})
    /\ IF Top.return_value # None
       THEN Step(NextStmt(Top))
       ELSE Fail(Panic("not implemented: TODO: visit_let_ivar"))
    /\ UNCHANGED <<ast, pc, table, resolved, streamVars, prepVars>>

\* visit_message_send_stmt, up to the evaluation of the send
\* a statement send that is evaluated whether or not a return is pending
VisitMessageSendStmt_NoGuard ==
    /\ AtStmt({"MessageSend"})
    /\ Step([Top EXCEPT !.cur = ExprCur(Top.body[Top.ip].expr),
                        !.kont = <<KMessageSendStmt>>])
    /\ UNCHANGED <<ast, pc, table, resolved, streamVars, prepVars>>

VisitMessageSendStmt ==
    /\ AtStmt({"MessageSend"})
    /\ LET node == Top.body[Top.ip]
       IN IF Top.return_value # None
          THEN Step(NextStmt(Top))
          ELSE Step([Top EXCEPT !.cur = ExprCur(node.expr),
                                !.kont = <<KMessageSendStmt>>])
    /\ UNCHANGED <<ast, pc, table, resolved, streamVars, prepVars>>

\* visit_message_send_stmt, the value of the send is dropped
FinishMessageSendStmt ==
    /\ AtValue("MessageSendStmt")
    /\ Step(NextStmt(Top))
    /\ UNCHANGED <<ast, pc, table, resolved, streamVars, prepVars>>

\* visit_return, up to the evaluation of the expression
VisitReturn ==
    /\ AtStmt({"Return"})
    /\ LET node == Top.body[Top.ip]
       IN Step([Top EXCEPT !.cur = ExprCur(node.expr), !.kont = <<KReturn>>])
    /\ UNCHANGED <<ast, pc, table, resolved, streamVars, prepVars>>

\* visit_return, from the value of the expression on
FinishReturn ==
    /\ AtValue("Return")
    /\ LET value == Top.cur.v
       IN Step(NextStmt([Top EXCEPT !.return_value = Some(value)]))
    /\ UNCHANGED <<ast, pc, table, resolved, streamVars, prepVars>>

\* Visitor::visit_define_method / visit_define_class: the defaults, no-ops
VisitDefinition ==
    /\ AtStmt({"DefineMethod", "DefineClass"})
    /\ Step(NextStmt(Top))
    /\ UNCHANGED <<ast, pc, table, resolved, streamVars, prepVars>>

(***************************************************************************)
(* Expressions: impl Eval                                                  *)
(***************************************************************************)
Deliver(f, v) == [f EXCEPT !.cur = ValCur(v)]

\* impl Eval for Local
EvalLocal ==
    /\ AtExpr({"Local"})
    /\ LET e == Top.cur.e
       IN IF e.name \in DOMAIN Top.locals
          THEN Step(Deliver(Top, to_owned(Top.locals[e.name])))
          ELSE Fail(UndefinedLocal(e.name, e.span))
    /\ UNCHANGED <<ast, pc, table, resolved, streamVars, prepVars>>

\* impl Eval for Number
EvalNumber ==
    /\ AtExpr({"Number"})
    /\ Step(Deliver(Top, ValueNumber(Top.cur.e.number)))
    /\ UNCHANGED <<ast, pc, table, resolved, streamVars, prepVars>>

\* impl Eval for True
EvalTrue ==
    /\ AtExpr({"True"})
    /\ Step(Deliver(Top, ValueTrue))
    /\ UNCHANGED <<ast, pc, table, resolved, streamVars, prepVars>>

\* impl Eval for False
EvalFalse ==
    /\ AtExpr({"False"})
    /\ Step(Deliver(Top, ValueFalse))
    /\ UNCHANGED <<ast, pc, table, resolved, streamVars, prepVars>>

\* impl Eval for Expr, the Block arm
EvalBlock ==
    /\ AtExpr({"Block"})
    /\ Fail(Panic("not implemented: eval Block"))
    /\ UNCHANGED <<ast, pc, table, resolved, streamVars, prepVars>>

\* a self that evaluates to a fresh copy of the instance
EvalSelf_Copy ==
    /\ AtExpr({"Self_"})
    /\ IF Top.self_ = None
       THEN Fail(NoSelf(Top.cur.e.span))
       ELSE /\ heap' = Append(heap, heap[Top.self_.v.id])
            /\ stack' = SetTop(Deliver(Top, ValueInstance(Len(heap) + 1)))
            /\ UNCHANGED result
    /\ UNCHANGED <<ast, pc, table, resolved, streamVars, prepVars>>

\* impl Eval for Self_
EvalSelf_ ==
    /\ AtExpr({"Self_"})
    /\ IF Top.self_ = None
       THEN Fail(NoSelf(Top.cur.e.span))
       ELSE Step(Deliver(Top, to_owned(Top.self_.v)))
    /\ UNCHANGED <<ast, pc, table, resolved, streamVars, prepVars>>

\* an instance variable that reads as nil when the instance has no such entry
EvalIVar_NilWhenMissing ==
    /\ AtExpr({"IVar"})
    /\ IF Top.self_ = None
       THEN Fail(IVarAccessedOutsideMethod(Top.cur.e.ident, Top.cur.e.span))
       ELSE IF Top.cur.e.ident \in DOMAIN heap[Top.self_.v.id].ivars
       THEN Step(Deliver(Top, to_owned(heap[Top.self_.v.id].ivars[Top.cur.e.ident])))
       ELSE Step(Deliver(Top, ValueNil))
    /\ UNCHANGED <<ast, pc, table, resolved, streamVars, prepVars>>

\* impl Eval for IVar
EvalIVar ==
    /\ AtExpr({"IVar"})
    /\ LET name == Top.cur.e.ident
           span == Top.cur.e.span
       IN IF Top.self_ = None
          THEN Fail(IVarAccessedOutsideMethod(name, span))
          ELSE IF to_owned(Top.self_.v).k # "Instance"
          THEN Fail(MessageSentToNonInstance(span))
          ELSE LET instance == heap[Top.self_.v.id]
               IN IF name \in DOMAIN instance.ivars
                  THEN Step(Deliver(Top, to_owned(instance.ivars[name])))
                  ELSE Fail(UndefinedIVar(name, span))
    /\ UNCHANGED <<ast, pc, table, resolved, streamVars, prepVars>>

\* impl Eval for List: the fold starts with an empty accumulator
EvalList ==
    /\ AtExpr({"List"})
    /\ Step(Push([Top EXCEPT !.cur = NoCur], KList(<<>>, Top.cur.e.items)))
    /\ UNCHANGED <<ast, pc, table, resolved, streamVars, prepVars>>

\* impl Eval for List: the next item, or Value::List when none is left
ListNext ==
    /\ AtLoop("List")
    /\ LET K == Head(Top.kont)
       IN IF K.rest = <<>>
          THEN Step(Deliver(Pop(Top), ValueList(K.done)))
          ELSE Step([Top EXCEPT !.cur = ExprCur(Head(K.rest)),
                                !.kont[1].rest = Tail(K.rest)])
    /\ UNCHANGED <<ast, pc, table, resolved, streamVars, prepVars>>

\* impl Eval for List: acc.push(value)
ListItemDone ==
    /\ AtValue("List")
    /\ Step([Top EXCEPT !.cur = NoCur, !.kont[1].done = Append(@, Top.cur.v)])
    /\ UNCHANGED <<ast, pc, table, resolved, streamVars, prepVars>>

\* a New that turns to its arguments before it looks the class up
EvalClassNew_ArgumentsFirst ==
    /\ AtExpr({"ClassNew"})
    /\ LET e == Top.cur.e
       IN Step(Push([Top EXCEPT !.cur = NoCur],
                    KArgs(ForNew(e.class_name), <<>>, e.class_name_span, e.args)))
    /\ UNCHANGED <<ast, pc, table, resolved, streamVars, prepVars>>

\* impl Eval for ClassNew, up to the call of eval_arguments; the parameters
\* are class.fields.keys(), in whatever order the HashMap yields them
EvalClassNew ==
    /\ AtExpr({"ClassNew"})
    /\ LET e == Top.cur.e
           call_site == e.class_name_span
           class == lookup_class(table, e.class_name, call_site)
       IN IF class.k # "Ok"
          THEN Fail(class)
          ELSE \E parameters \in Orderings(table[class.rc].fields) :
                 Step(Push([Top EXCEPT !.cur = NoCur],
                           KArgs(ForNew(class.rc), parameters, call_site, e.args)))
    /\ UNCHANGED <<ast, pc, table, resolved, streamVars, prepVars>>

\* impl Eval for MessageSend, up to the evaluation of the receiver
EvalMessageSend ==
    /\ AtExpr({"MessageSend"})
    /\ Step(Push([Top EXCEPT !.cur = ExprCur(Top.cur.e.receiver)], KReceiver(Top.cur.e)))
    /\ UNCHANGED <<ast, pc, table, resolved, streamVars, prepVars>>

\* a send that answers Nil when its receiver is no instance
ReceiverDone_Lenient ==
    /\ AtValue("Receiver")
    /\ LET node == Head(Top.kont).node
           receiver == Top.cur.v
       IN IF receiver.k # "Instance"
          THEN Step(Deliver(Pop(Top), ValueNil))
          ELSE LET method == get_method_named(table, heap[receiver.id].class,
                                              node.msg, node.span)
               IN IF method.k # "Ok"
                  THEN Fail(method)
                  ELSE Step([Top EXCEPT
                         !.cur = NoCur,
                         !.kont[1] = KArgs(ForSend(receiver, method.found),
                                           method.found.parameters, node.span, node.args)])
    /\ UNCHANGED <<ast, pc, table, resolved, streamVars, prepVars>>

\* impl Eval for MessageSend, from the receiver's value to eval_arguments
ReceiverDone ==
    /\ AtValue("Receiver")
    /\ LET node == Head(Top.kont).node
           receiver == Top.cur.v
       IN IF receiver.k # "Instance"
          THEN Fail(MessageSentToNonInstance(node.span))
          ELSE LET method == get_method_named(table, heap[receiver.id].class,
                                              node.msg, node.span)
               IN IF method.k # "Ok"
                  THEN Fail(method)
                  ELSE Step([Top EXCEPT
                         !.cur = NoCur,
                         !.kont[1] = KArgs(ForSend(receiver, method.found),
                                           method.found.parameters, node.span, node.args)])
    /\ UNCHANGED <<ast, pc, table, resolved, streamVars, prepVars>>

\* eval_arguments, first loop: the next argument's expression is evaluated
EvalArgument ==
    /\ AtLoop("Args")
    /\ LET K == Head(Top.kont)
       IN /\ K.i <= Len(K.args)
          /\ Step([Top EXCEPT !.cur = ExprCur(K.args[K.i].expr)])
    /\ UNCHANGED <<ast, pc, table, resolved, streamVars, prepVars>>

\* eval_arguments, first loop: arg_values.insert(name, (value, span))
ArgumentDone ==
    /\ AtValue("Args")
    /\ LET K == Head(Top.kont)
           arg == K.args[K.i]
       IN Step([Top EXCEPT
             !.cur = NoCur,
             !.kont[1].i = @ + 1,
             !.kont[1].arg_values =
                 Insert(@, arg.ident, [value |-> Top.cur.v, span |-> arg.span])])
    /\ UNCHANGED <<ast, pc, table, resolved, streamVars, prepVars>>

\* a binding that reports an argument nobody asked for before it looks for
\* the arguments that are missing
EvalArgumentsEnd_UnexpectedFirst ==
    /\ AtLoop("Args")
    /\ LET K == Head(Top.kont)
           bound == bind_parameters(K.parameters, K.call_site, K.arg_values, EmptyMap)
           extra == DOMAIN K.arg_values \ {K.parameters[i] : i \in DOMAIN K.parameters}
       IN /\ K.i > Len(K.args)
          /\ IF extra # {}
             THEN \E name \in extra :
                    Fail(UnexpectedArgument(name, K.arg_values[name].span))
             ELSE IF bound.k # "Ok"
             THEN Fail(bound)
             ELSE IF K.purpose.k = "New"
             THEN /\ heap' = Append(heap, Instance(K.purpose.rc, bound.ivars))
                  /\ stack' = SetTop(Deliver(Pop(Top), ValueInstance(Len(heap) + 1)))
                  /\ UNCHANGED result
             ELSE IF Len(stack) >= MaxDepth
             THEN Fail(StackOverflow)
             ELSE /\ stack' = Append(SetTop([Top EXCEPT !.kont[1] = KCall]),
                                     copy_for_method_call(to_owned(K.purpose.receiver),
                                                          bound.ivars,
                                                          K.purpose.callee.body))
                  /\ UNCHANGED <<result, heap>>
    /\ UNCHANGED <<ast, pc, table, resolved, streamVars, prepVars>>

\* eval_arguments, second and third loop, and what its caller does with the
\* bindings: ClassNew allocates the Instance, MessageSend enters the method
EvalArgumentsEnd ==
    /\ AtLoop("Args")
    /\ LET K == Head(Top.kont)
           bound == bind_parameters(K.parameters, K.call_site, K.arg_values, EmptyMap)
       IN /\ K.i > Len(K.args)
          /\ IF bound.k # "Ok"
             THEN Fail(bound)
             ELSE IF DOMAIN bound.rest # {}
             THEN \E name \in DOMAIN bound.rest :
                    Fail(UnexpectedArgument(name, bound.rest[name].span))
             ELSE IF K.purpose.k = "New"
             THEN /\ heap' = Append(heap, Instance(K.purpose.rc, bound.ivars))
                  /\ stack' = SetTop(Deliver(Pop(Top), ValueInstance(Len(heap) + 1)))
                  /\ UNCHANGED result
             ELSE IF Len(stack) >= MaxDepth
             THEN Fail(StackOverflow)
             ELSE /\ stack' = Append(SetTop([Top EXCEPT !.kont[1] = KCall]),
                                     copy_for_method_call(to_owned(K.purpose.receiver),
                                                          bound.ivars,
                                                          K.purpose.callee.body))
                  /\ UNCHANGED <<result, heap>>
    /\ UNCHANGED <<ast, pc, table, resolved, streamVars, prepVars>>

\* a method return that hands the pending return value on to the caller's frame
MethodReturn_Leaky ==
    /\ Interpreting
    /\ Len(stack) > 1
    /\ Top.cur = NoCur /\ Top.kont = <<>> /\ Top.ip > Len(Top.body)
    /\ LET caller == stack[Len(stack) - 1]
           return_value == IF Top.return_value = None THEN ValueNil ELSE Top.return_value.v
       IN stack' = [SubSeq(stack, 1, Len(stack) - 1) EXCEPT
                       ![Len(stack) - 1] =
                           [Deliver(Pop(caller), return_value) EXCEPT
                               !.return_value = Top.return_value]]
    /\ UNCHANGED <<ast, pc, table, resolved, streamVars, prepVars, result, heap>>

\* impl Eval for MessageSend: visit_ast of the method body is over, the send
\* evaluates to the pending return value, or to Nil
MethodReturn ==
    /\ Interpreting
    /\ Len(stack) > 1
    /\ Top.cur = NoCur /\ Top.kont = <<>> /\ Top.ip > Len(Top.body)
    /\ LET caller == stack[Len(stack) - 1]
           return_value == IF Top.return_value = None THEN ValueNil ELSE Top.return_value.v
       IN stack' = [SubSeq(stack, 1, Len(stack) - 1) EXCEPT
                       ![Len(stack) - 1] = Deliver(Pop(caller), return_value)]
    /\ UNCHANGED <<ast, pc, table, resolved, streamVars, prepVars, result, heap>>

\* interpret: visit_ast of the program is over
InterpretEnd ==
    /\ Interpreting
    /\ Len(stack) = 1
    /\ Top.cur = NoCur /\ Top.kont = <<>> /\ Top.ip > Len(Top.body)
    /\ result' = Ok
    /\ UNCHANGED <<ast, pc, table, resolved, streamVars, prepVars, stack, heap>>

(***************************************************************************)
(* main: the table builder, then the evaluator on the same AST             *)
(***************************************************************************)
NoSpan == Span(0, 0)
Num(n) == Number(n, NoSpan)
Loc(name) == Local(name, NoSpan)

\* keyword arguments with the given labels: the i-th argument is the number i
Args(labels) ==
    [i \in 1..Len(labels) |-> Argument(labels[i], Num(i), Span(i, i))]

Labels == {"x", "y", "z"}
LabelSeqs == UNION {[1..n -> Labels] : n \in 0..MaxArgs}
FieldSeqs == {<<>>, <<"x">>, <<"y">>, <<"x", "y">>}

\* [A def: #get do: || { return @x; }];
Getter == DefineMethodStmt("A", "get", Block(<<>>, <<Return(IVar("x", NoSpan))>>))

\* a class with some fields, instantiated with some keyword arguments
ConstructionPrograms ==
    {<<DefineClassStmt("A", "Object", fields),
       Getter,
       LetLocal("a", ClassNew("A", NoSpan, Args(labels), NoSpan)),
       LetLocal("b", MessageSend(Loc("a"), "get", <<>>, NoSpan))>> :
         fields \in FieldSeqs, labels \in LabelSeqs}

\* statements of the method bodies that are run
BodyStmts ==
    {Return(Num(1)), Return(Loc("u")), Return(IVar("x", NoSpan)),
     LetLocal("p", Num(2)), LetIVar("x", Num(2)),
     MessageSendStmt(MessageSend(Self_(NoSpan), "m", <<>>, NoSpan)),
     Return(Loc("a")), LetLocal("a", Num(2)), Return(Self_(NoSpan))}
Bodies == UNION {[1..n -> BodyStmts] : n \in 0..MaxBody}
Parameters == {<<>>, <<"p">>}
Sends ==
    {MessageSend(Loc("a"), "m", <<>>, NoSpan),
     MessageSend(Loc("a"), "m", <<Argument("p", Num(7), Span(1, 1))>>, NoSpan),
     MessageSend(Loc("a"), "k", <<>>, NoSpan)}

\* a method with some body, sent to an instance through an alias
DispatchPrograms ==
    {<<DefineClassStmt("A", "Object", <<"x">>),
       DefineMethodStmt("A", "m", Block(parameters, body)),
       LetLocal("a", ClassNew("A", NoSpan, <<Argument("x", Num(1), Span(1, 1))>>, NoSpan)),
       LetLocal("b", send),
       LetLocal("c", Loc("b"))>> :
         parameters \in Parameters, body \in Bodies, send \in Sends}

\* every kind of expression, bound to a local that is then sent a message
ValueExprs ==
    {Num(1), True(NoSpan), False(NoSpan), List(<<>>, NoSpan),
     List(<<Num(1), True(NoSpan)>>, NoSpan), BlockExpr(EmptyBlock, NoSpan),
     Self_(NoSpan), IVar("x", NoSpan), Loc("u"),
     ClassNew("Z", NoSpan, <<>>, NoSpan),
     ClassNew("Z", Span(5, 5), <<Argument("x", Loc("u"), Span(1, 1))>>, NoSpan),
     ClassNew("A", NoSpan, <<Argument("x", Num(1), Span(1, 1))>>, NoSpan),
     MessageSend(ClassNew("A", NoSpan, <<Argument("x", Num(1), Span(1, 1))>>, NoSpan),
                 "m", <<>>, NoSpan)}
\* the send, without arguments and with an argument that cannot be evaluated
ValueSends ==
    {MessageSend(Loc("a"), "m", <<>>, Span(7, 7)),
     MessageSend(Loc("a"), "m", <<Argument("p", Loc("u"), Span(1, 1))>>, Span(7, 7))}
ValuePrograms ==
    {<<DefineClassStmt("A", "Object", <<"x">>),
       DefineMethodStmt("A", "m", EmptyBlock),
       LetLocal("a", e),
       MessageSendStmt(send)>> : e \in ValueExprs, send \in ValueSends}

\* a statement that fails when it is evaluated, before declarations that the
\* table builder accepts or rejects
PipelineTails ==
    {<<DefineClassStmt("A", "Object", <<>>)>>,
     <<DefineClassStmt("A", "Object", <<>>), DefineClassStmt("A", "Object", <<>>)>>,
     <<DefineClassStmt("A", "Z", <<>>)>>,
     <<DefineMethodStmt("Z", "m", EmptyBlock)>>,
     <<DefineClassStmt("A", "Object", <<>>), DefineMethodStmt("A", "m", EmptyBlock),
       DefineMethodStmt("A", "m", EmptyBlock)>>}
PipelinePrograms == {<<LetLocal("a", Loc("u"))>> \o tail : tail \in PipelineTails}

\* a send that can fail for several reasons at once: the receiver is an
\* undefined local or a number, the method is undefined, an argument cannot be
\* evaluated, the parameter p is missing, the label q is unexpected
OrderSpan == Span(9, 9)
OrderArgs ==
    {<<Argument("q", Loc("v"), Span(1, 1)), Argument("r", Loc("w"), Span(2, 2))>>,
     <<Argument("q", Num(7), Span(1, 1))>>,
     <<Argument("p", Num(7), Span(1, 1)), Argument("q", Num(8), Span(2, 2))>>,
     <<Argument("p", Num(7), Span(1, 1))>>}
OrderPrograms ==
    {<<DefineClassStmt("A", "Object", <<>>),
       DefineMethodStmt("A", "m", Block(<<"p">>, <<>>)),
       LetLocal("a", init),
       LetLocal("b", MessageSend(Loc(receiver), msg, args, OrderSpan))>> :
         init \in {ClassNew("A", NoSpan, <<>>, NoSpan), Num(1)},
         receiver \in {"a", "u"}, msg \in {"m", "k"}, args \in OrderArgs}

\* a return at top level, followed by statements that would change a local,
\* send a message or fail if they were executed
AfterReturn ==
    {LetLocal("a", Num(2)), LetLocal("c", Loc("u")),
     MessageSendStmt(MessageSend(Loc("a"), "m", <<>>, NoSpan)),
     MessageSendStmt(MessageSend(Loc("a"), "k", <<>>, NoSpan))}
ReturnPrograms ==
    {<<DefineClassStmt("A", "Object", <<>>),
       DefineMethodStmt("A", "m", EmptyBlock),
       LetLocal("a", ClassNew("A", NoSpan, <<>>, NoSpan)),
       Return(Loc("a")),
       first, second>> : first \in AfterReturn, second \in AfterReturn}

EvalPrograms ==
    ConstructionPrograms \cup DispatchPrograms \cup ValuePrograms \cup PipelinePrograms
        \cup OrderPrograms \cup ReturnPrograms

EvalInit ==
    /\ \E p \in EvalPrograms : ast = WithSpans(p)
    /\ pc = "find_classes"
    /\ idx = 1
    /\ table = built_in_classes
    /\ acc = EmptyMap
    /\ todo = {}
    /\ result = Running
    /\ stack = <<>>
    /\ heap = <<>>
    /\ resolved = None
    /\ tokens = <<>>
    /\ current_position = 0
    /\ called = None

\* an evaluator that is started whether or not the builder returned a table
InterpreterNew_Regardless ==
    /\ pc = "find_methods" /\ result # Running
    /\ pc' = "interpret"
    /\ result' = Running
    /\ stack' = <<Interpreter_new(ast)>>
    /\ UNCHANGED <<ast, idx, table, acc, todo, heap, resolved, streamVars>>

\* main: the table is built, Interpreter::new(class_vtable) and interpret start
InterpreterNew ==
    /\ pc = "find_methods" /\ result = Ok
    /\ pc' = "interpret"
    /\ result' = Running
    /\ stack' = <<Interpreter_new(ast)>>
    /\ UNCHANGED <<ast, idx, table, acc, todo, heap, resolved, streamVars>>

EvalNext ==
    \/ Next
    \/ InterpreterNew
    \/ VisitLetLocal
    \/ FinishLetLocal
    \/ VisitLetIVar
    \/ VisitMessageSendStmt
    \/ FinishMessageSendStmt
    \/ VisitReturn
    \/ FinishReturn
    \/ VisitDefinition
    \/ EvalLocal
    \/ EvalNumber
    \/ EvalTrue
    \/ EvalFalse
    \/ EvalBlock
    \/ EvalSelf_
    \/ EvalIVar
    \/ EvalList
    \/ ListNext
    \/ ListItemDone
    \/ EvalClassNew
    \/ EvalMessageSend
    \/ ReceiverDone
    \/ EvalArgument
    \/ ArgumentDone
    \/ EvalArgumentsEnd
    \/ MethodReturn
    \/ InterpretEnd

EvalSpec == EvalInit /\ [][EvalNext]_vars

(***************************************************************************)
(* Class::get_method_named on class chains of any shape                    *)
(***************************************************************************)
ClassNames == <<"A", "B", "C", "D">>
Selectors == {"m", "k"}
Chained == {ClassNames[i] : i \in 1..MaxClasses}
ClassNo(c) == IF c = "Object" THEN 0 ELSE CHOOSE i \in 1..MaxClasses : ClassNames[i] = c

\* the descriptor of class c: its superclass handle, and one method, defined
\* at a span of its own, for each selector in defined
Descriptor(c, super_class, defined) ==
    [name |-> c,
     super_class_name |-> IF c = "Object" THEN "Object" ELSE super_class.rc,
     super_class |-> super_class,
     fields |-> {},
     methods |-> [sel \in defined |->
                    make_method(sel, EmptyBlock, StmtSpan(ClassNo(c)))],
     span |-> Span(0, 0)]

\* tables of the first n class names under Object: every class extends Object
\* or a class named before it, every class defines some of the selectors
ChainTables ==
    UNION {
      {[c \in {"Object"} \cup {ClassNames[i] : i \in 1..n} |->
          Descriptor(c, IF c = "Object" THEN None ELSE SomeClass(sup[c]), defs[c])] :
            sup \in {f \in [{ClassNames[i] : i \in 1..n} -> {"Object"} \cup Chained] :
                        \A c \in DOMAIN f : ClassNo(f[c]) < ClassNo(c)},
            defs \in [{"Object"} \cup {ClassNames[i] : i \in 1..n} -> SUBSET Selectors]} :
      n \in 0..MaxClasses}

ResolveInit ==
    /\ table \in ChainTables
    /\ pc = "resolve"
    /\ resolved = None
    /\ tokens = <<>>
    /\ current_position = 0
    /\ called = None
    /\ ast = <<>>
    /\ idx = 1
    /\ acc = EmptyMap
    /\ todo = {}
    /\ result = Running
    /\ stack = <<>>
    /\ heap = <<>>

\* receiver.class.get_method_named(msg, span) for some receiver class and selector
Resolve ==
    /\ pc = "resolve"
    /\ \E c \in DOMAIN table, msg \in Selectors :
         resolved' = [class |-> c, msg |-> msg,
                      answer |-> get_method_named(table, c, msg, NoSpan)]
    /\ UNCHANGED <<ast, pc, idx, table, acc, todo, result, stack, heap, streamVars>>

ResolveNext == Resolve

ResolveSpec == ResolveInit /\ [][ResolveNext]_vars

(***************************************************************************)
(* The token stream (lex/mod.rs, parse/parse_stream.rs)                    *)
(***************************************************************************)
\* a lex::Token is a record: the variant is t, span its Span; Name and ClassName
\* carry a name, Number (lex::Digit in lex/mod.rs) a number

\* T::from_token(token): Some exactly when the token is the variant T
from_token(token, T) == token.t = T

\* ParseError::Error(format!("Expected '{}' but got '{}'", T::debug_name(), token))
\* and the fixed messages; the text is kept as its parts
ExpectedButGot(expected, got) ==
    [k |-> "ParseError", msg |-> "Expected but got", expected |-> expected, got |-> got]
ParseError(msg) == [k |-> "ParseError", msg |-> msg, expected |-> "", got |-> ""]

\* what a call on the stream comes back with, and where it leaves the cursor:
\* Ok(node) / Err(error) of a Result, Some(node) / None of an Option, and the
\* panic of tokens[current_position] past the last token, which returns nothing
ParsedOk(node, pos) == [k |-> "Ok", node |-> node, pos |-> pos]
ParsedErr(error, pos) == [k |-> "Err", error |-> error, pos |-> pos]
ParsedSome(node, pos) == [k |-> "Some", node |-> node, pos |-> pos]
ParsedNone(pos) == [k |-> "None", pos |-> pos]
ParsedMany(nodes, pos) == [k |-> "Ok", nodes |-> nodes, pos |-> pos]
IndexOutOfBounds == [k |-> "Panic"]

\* ParseStream::at_eof (at_end in parse/mod.rs)
at_eof(toks, pos) == pos >= Len(toks)

\* ParseStream::parse_token::<T>: the cursor is 0-based, sequences are 1-based
parse_token(toks, pos, T) ==
    IF pos >= Len(toks)
    THEN IndexOutOfBounds
    ELSE LET token == toks[pos + 1] IN
         IF from_token(token, T)
         THEN ParsedOk(token, pos + 1)
         ELSE ParsedErr(ExpectedButGot(T, token.t), pos + 1)

try_parse_token_NoRestore(toks, pos, T) ==
    IF pos >= Len(toks)
    THEN IndexOutOfBounds
    ELSE LET token == toks[pos + 1] IN
         IF from_token(token, T)
         THEN ParsedSome(token, pos + 1)
         ELSE ParsedNone(pos + 1)

\* ParseStream::try_parse_token::<T>
try_parse_token(toks, pos, T) ==
    LET start_position == pos IN
    IF pos >= Len(toks)
    THEN IndexOutOfBounds
    ELSE LET token == toks[pos + 1] IN
         IF from_token(token, T)
         THEN ParsedSome(token, pos + 1)
         ELSE ParsedNone(start_position)

\* ast::Ident
Ident(name, span) == [k |-> "Ident", name |-> name, span |-> span]

\* let v = e; F(v): e is evaluated once and v is its value
With(e, F(_)) == CHOOSE x \in {F(v) : v \in {e}} : TRUE

\* F(r?) of a function that returns a Result: anything but Ok(_) is returned as
\* it is (and a panic unwinds through the caller)
Then(r, F(_)) == With(r, LAMBDA v : IF v.k # "Ok" THEN v ELSE F(v))

RECURSIVE parse_node(_, _, _)
RECURSIVE try_parse_node(_, _, _)
RECURSIVE try_parse_node_each(_, _, _, _)
RECURSIVE parse_many(_, _, _)
RECURSIVE parse_many_delimited(_, _, _, _)
RECURSIVE Stmt_parse(_, _)
RECURSIVE Expr_parse(_, _)

\* ParseStream::try_parse_node::<T>
try_parse_node(toks, pos, T) ==
    LET start_position == pos IN
    With(parse_node(toks, pos, T), LAMBDA r :
        IF r.k = "Panic" THEN r
        ELSE IF r.k = "Ok" THEN ParsedSome(r.node, r.pos)
        ELSE ParsedNone(start_position))

\* the run of try_parse_node!(T, stream) lines of Stmt::parse and Expr::parse:
\* the first alternative that parses is returned, else the given error
try_parse_node_each(toks, pos, types, error) ==
    IF types = <<>>
    THEN ParsedErr(error, pos)
    ELSE With(try_parse_node(toks, pos, Head(types)), LAMBDA r :
         IF r.k = "Panic" THEN r
         ELSE IF r.k = "Some" THEN ParsedOk(r.node, r.pos)
         ELSE try_parse_node_each(toks, r.pos, Tail(types), error))

\* ParseStream::parse_many::<T>
parse_many(toks, pos, T) ==
    IF at_eof(toks, pos)
    THEN ParsedMany(<<>>, pos)
    ELSE With(try_parse_node(toks, pos, T), LAMBDA r :
         IF r.k = "Panic" THEN r
         ELSE IF r.k = "None" THEN ParsedMany(<<>>, r.pos)
         ELSE Then(parse_many(toks, r.pos, T), LAMBDA rest :
              ParsedMany(<<r.node>> \o rest.nodes, rest.pos)))

\* ParseStream::parse_many_delimited::<Node, Token>
parse_many_delimited(toks, pos, Node, Delimiter) ==
    IF at_eof(toks, pos)
    THEN ParsedMany(<<>>, pos)
    ELSE With(try_parse_node(toks, pos, Node), LAMBDA r :
         IF r.k = "Panic" THEN r
         ELSE IF r.k = "None" THEN ParsedMany(<<>>, r.pos)
         ELSE With(try_parse_token(toks, r.pos, Delimiter), LAMBDA d :
              IF d.k = "Panic" THEN d
              ELSE IF d.k = "None" THEN ParsedMany(<<r.node>>, d.pos)
              ELSE Then(parse_many_delimited(toks, d.pos, Node, Delimiter), LAMBDA rest :
                   ParsedMany(<<r.node>> \o rest.nodes, rest.pos))))

\* impl Parse for Ident
Ident_parse(toks, pos) ==
    Then(parse_token(toks, pos, "Name"), LAMBDA name :
    ParsedOk(Ident(name.node.name, name.node.span), name.pos))

\* impl Parse for ClassName
ClassName_parse(toks, pos) ==
    Then(parse_token(toks, pos, "ClassName"), LAMBDA name :
    ParsedOk([k |-> "ClassName", name |-> name.node.name, span |-> name.node.span],
                  name.pos))

\* ParseStream::parse_specific_ident
parse_specific_ident(toks, pos, name) ==
    Then(Ident_parse(toks, pos), LAMBDA ident :
    IF ident.node.name = name THEN ident
    ELSE ParsedErr(ExpectedButGot(name, ident.node.name), ident.pos))

\* ParseStream::parse_specific_class_name
parse_specific_class_name(toks, pos, name) ==
    Then(ClassName_parse(toks, pos), LAMBDA class_name :
    IF class_name.node.name = name THEN class_name
    ELSE ParsedErr(ExpectedButGot(name, class_name.node.name), class_name.pos))

(***************************************************************************)
(* The grammar: the Parse impls of ast/mod.rs                              *)
(***************************************************************************)
\* impl Parse for Stmt
Stmt_parse(toks, pos) ==
    try_parse_node_each(toks, pos,
        <<"DefineClass", "DefineMethod", "LetLocal", "LetIVar", "MessageSendStmt", "Return">>,
        ParseError("stmt parse failed"))

LetLocal_parse_FromIdent(toks, pos) ==
    Then(parse_token(toks, pos, "Let"), LAMBDA start :
    Then(parse_node(toks, start.pos, "Ident"), LAMBDA ident :
    Then(parse_token(toks, ident.pos, "Eq"), LAMBDA eq :
    Then(parse_node(toks, eq.pos, "Expr"), LAMBDA body :
    Then(parse_token(toks, body.pos, "Semicolon"), LAMBDA end :
    ParsedOk([k |-> "LetLocal", ident |-> ident.node, body |-> body.node,
              span |-> Span(ident.node.span.from, end.node.span.to)], end.pos))))))

\* impl Parse for LetLocal
LetLocal_parse(toks, pos) ==
    Then(parse_token(toks, pos, "Let"), LAMBDA start :
    Then(parse_node(toks, start.pos, "Ident"), LAMBDA ident :
    Then(parse_token(toks, ident.pos, "Eq"), LAMBDA eq :
    Then(parse_node(toks, eq.pos, "Expr"), LAMBDA body :
    Then(parse_token(toks, body.pos, "Semicolon"), LAMBDA end :
    ParsedOk([k |-> "LetLocal", ident |-> ident.node, body |-> body.node,
              span |-> Span(start.node.span.from, end.node.span.to)], end.pos))))))

\* impl Parse for LetIVar
LetIVar_parse(toks, pos) ==
    Then(parse_token(toks, pos, "Let"), LAMBDA start :
    Then(parse_token(toks, start.pos, "At"), LAMBDA at :
    Then(parse_node(toks, at.pos, "Ident"), LAMBDA ident :
    Then(parse_token(toks, ident.pos, "Eq"), LAMBDA eq :
    Then(parse_node(toks, eq.pos, "Expr"), LAMBDA body :
    Then(parse_token(toks, body.pos, "Semicolon"), LAMBDA end :
    ParsedOk([k |-> "LetIVar", ident |-> ident.node, body |-> body.node,
              span |-> Span(start.node.span.from, end.node.span.to)], end.pos)))))))

\* impl Parse for Return
Return_parse(toks, pos) ==
    Then(parse_token(toks, pos, "Return"), LAMBDA start :
    Then(parse_node(toks, start.pos, "Expr"), LAMBDA expr :
    Then(parse_token(toks, expr.pos, "Semicolon"), LAMBDA end :
    ParsedOk([k |-> "Return", expr |-> expr.node,
              span |-> Span(start.node.span.from, end.node.span.to)], end.pos))))

\* impl Parse for MessageSendStmt
MessageSendStmt_parse(toks, pos) ==
    Then(parse_node(toks, pos, "MessageSend"), LAMBDA expr :
    Then(parse_token(toks, expr.pos, "Semicolon"), LAMBDA end :
    LET start == expr.node.span IN
    ParsedOk([k |-> "MessageSendStmt", expr |-> expr.node,
              span |-> Span(start.from, end.node.span.to)], end.pos)))

\* impl Parse for DefineMethod
DefineMethod_parse(toks, pos) ==
    Then(parse_token(toks, pos, "OBracket"), LAMBDA start :
    Then(parse_node(toks, start.pos, "ClassName"), LAMBDA class_name :
    Then(parse_specific_ident(toks, class_name.pos, "def"), LAMBDA def :
    Then(parse_token(toks, def.pos, "Colon"), LAMBDA colon :
    Then(parse_node(toks, colon.pos, "Selector"), LAMBDA method_name :
    Then(parse_specific_ident(toks, method_name.pos, "do"), LAMBDA do :
    Then(parse_token(toks, do.pos, "Colon"), LAMBDA colon2 :
    Then(parse_node(toks, colon2.pos, "Block"), LAMBDA block :
    Then(parse_token(toks, block.pos, "CBracket"), LAMBDA cbracket :
    Then(parse_token(toks, cbracket.pos, "Semicolon"), LAMBDA end :
    ParsedOk([k |-> "DefineMethod", class_name |-> class_name.node,
              method_name |-> method_name.node, block |-> block.node,
              span |-> Span(start.node.span.from, end.node.span.to)], end.pos)))))))))))

\* impl Parse for DefineClass
DefineClass_parse(toks, pos) ==
    Then(parse_token(toks, pos, "OBracket"), LAMBDA start :
    Then(parse_specific_class_name(toks, start.pos, "Class"), LAMBDA class :
    Then(parse_specific_ident(toks, class.pos, "subclass"), LAMBDA subclass :
    Then(parse_specific_ident(toks, subclass.pos, "name"), LAMBDA name_ :
    Then(parse_token(toks, name_.pos, "Colon"), LAMBDA colon :
    Then(parse_node(toks, colon.pos, "ClassNameSelector"), LAMBDA name :
    Then(parse_specific_ident(toks, name.pos, "fields"), LAMBDA fields_ :
    Then(parse_token(toks, fields_.pos, "Colon"), LAMBDA colon2 :
    Then(parse_token(toks, colon2.pos, "OBracket"), LAMBDA obracket :
    Then(parse_many(toks, obracket.pos, "Selector"), LAMBDA fields :
    Then(parse_token(toks, fields.pos, "CBracket"), LAMBDA cbracket :
    Then(parse_token(toks, cbracket.pos, "CBracket"), LAMBDA cbracket2 :
    Then(parse_token(toks, cbracket2.pos, "Semicolon"), LAMBDA end :
    ParsedOk([k |-> "DefineClass", name |-> name.node, fields |-> fields.nodes,
              span |-> Span(start.node.span.from, end.node.span.to)], end.pos))))))))))))))

\* impl Parse for Expr
Expr_parse(toks, pos) ==
    try_parse_node_each(toks, pos,
        <<"ClassNameSelector", "ClassNew", "Local", "IVar", "Selector", "Block", "Number",
          "List", "True", "False", "Self_", "MessageSend">>,
        ParseError("expr parse failed"))

\* impl Parse for Number
Number_parse(toks, pos) ==
    Then(parse_token(toks, pos, "Number"), LAMBDA number :
    ParsedOk([k |-> "Number", number |-> number.node.number,
                   span |-> number.node.span], number.pos))

\* impl Parse for Local
Local_parse(toks, pos) ==
    Then(parse_token(toks, pos, "Name"), LAMBDA name :
    ParsedOk([k |-> "Local", ident |-> Ident(name.node.name, name.node.span),
                   span |-> name.node.span], name.pos))

\* impl Parse for IVar
IVar_parse(toks, pos) ==
    Then(parse_token(toks, pos, "At"), LAMBDA start :
    Then(parse_node(toks, start.pos, "Ident"), LAMBDA ident :
    LET end == ident.node.span IN
    ParsedOk([k |-> "IVar", ident |-> ident.node,
              span |-> Span(start.node.span.from, end.to)], ident.pos)))

\* impl Parse for Selector
Selector_parse(toks, pos) ==
    Then(parse_token(toks, pos, "Hash"), LAMBDA start :
    Then(parse_node(toks, start.pos, "Ident"), LAMBDA ident :
    LET end == ident.node.span IN
    ParsedOk([k |-> "Selector", ident |-> ident.node,
              span |-> Span(start.node.span.from, end.to)], ident.pos)))

\* impl Parse for ClassNameSelector
ClassNameSelector_parse(toks, pos) ==
    Then(parse_token(toks, pos, "Hash"), LAMBDA start :
    Then(parse_node(toks, start.pos, "ClassName"), LAMBDA class_name :
    LET end == class_name.node.span IN
    ParsedOk([k |-> "ClassNameSelector", class_name |-> class_name.node,
              span |-> Span(start.node.span.from, end.to)], class_name.pos)))

\* impl Parse for True, False and Self_: the node is the token's span
Keyword_parse(toks, pos, T) ==
    Then(parse_token(toks, pos, T), LAMBDA token :
    ParsedOk([k |-> T, span |-> token.node.span], token.pos))

\* impl Parse for List
List_parse(toks, pos) ==
    Then(parse_token(toks, pos, "OBracket"), LAMBDA start :
    Then(parse_many_delimited(toks, start.pos, "Expr", "Comma"), LAMBDA items :
    Then(parse_token(toks, items.pos, "CBracket"), LAMBDA end :
    ParsedOk([k |-> "List", items |-> items.nodes,
              span |-> Span(start.node.span.from, end.node.span.to)], end.pos))))

\* impl Parse for MessageSend
MessageSend_parse(toks, pos) ==
    Then(parse_token(toks, pos, "OBracket"), LAMBDA start :
    Then(parse_node(toks, start.pos, "Expr"), LAMBDA receiver :
    Then(parse_node(toks, receiver.pos, "Ident"), LAMBDA msg :
    Then(parse_many(toks, msg.pos, "Argument"), LAMBDA args :
    Then(parse_token(toks, args.pos, "CBracket"), LAMBDA end :
    ParsedOk([k |-> "MessageSend", receiver |-> receiver.node, msg |-> msg.node,
              args |-> args.nodes,
              span |-> Span(start.node.span.from, end.node.span.to)], end.pos))))))

\* impl Parse for Argument
Argument_parse(toks, pos) ==
    Then(parse_node(toks, pos, "Ident"), LAMBDA ident :
    Then(parse_token(toks, ident.pos, "Colon"), LAMBDA colon :
    LET start == ident.node.span IN
    Then(parse_node(toks, colon.pos, "Expr"), LAMBDA expr :
    LET end == expr.node.span IN
    ParsedOk([k |-> "Argument", ident |-> ident.node, expr |-> expr.node,
              span |-> Span(start.from, end.to)], expr.pos))))

\* impl Parse for Block
Block_parse(toks, pos) ==
    Then(parse_token(toks, pos, "Pipe"), LAMBDA start :
    Then(parse_many(toks, start.pos, "Parameter"), LAMBDA parameters :
    Then(parse_token(toks, parameters.pos, "Pipe"), LAMBDA pipe :
    Then(parse_token(toks, pipe.pos, "OBrace"), LAMBDA obrace :
    Then(parse_many(toks, obrace.pos, "Stmt"), LAMBDA body :
    Then(parse_token(toks, body.pos, "CBrace"), LAMBDA end :
    ParsedOk([k |-> "Block", parameters |-> parameters.nodes, body |-> body.nodes,
              span |-> Span(start.node.span.from, end.node.span.to)], end.pos)))))))

\* impl Parse for Parameter
Parameter_parse(toks, pos) ==
    Then(parse_node(toks, pos, "Ident"), LAMBDA ident :
    Then(parse_token(toks, ident.pos, "Colon"), LAMBDA end :
    LET start == ident.node.span IN
    ParsedOk([k |-> "Parameter", ident |-> ident.node,
              span |-> Span(start.from, end.node.span.to)], end.pos)))

\* impl Parse for ClassNew
ClassNew_parse(toks, pos) ==
    Then(parse_token(toks, pos, "OBracket"), LAMBDA start :
    Then(parse_node(toks, start.pos, "ClassName"), LAMBDA class_name :
    Then(parse_specific_ident(toks, class_name.pos, "new"), LAMBDA new :
    Then(parse_many(toks, new.pos, "Argument"), LAMBDA args :
    Then(parse_token(toks, args.pos, "CBracket"), LAMBDA end :
    ParsedOk([k |-> "ClassNew", class_name |-> class_name.node, args |-> args.nodes,
              span |-> Span(start.node.span.from, end.node.span.to)], end.pos))))))

\* ParseStream::parse_node::<T> is T::parse(self)
parse_node(toks, pos, T) ==
    CASE T = "Stmt" -> Stmt_parse(toks, pos)
      [] T = "LetLocal" -> LetLocal_parse(toks, pos)
      [] T = "LetIVar" -> LetIVar_parse(toks, pos)
      [] T = "Return" -> Return_parse(toks, pos)
      [] T = "MessageSendStmt" -> MessageSendStmt_parse(toks, pos)
      [] T = "DefineMethod" -> DefineMethod_parse(toks, pos)
      [] T = "DefineClass" -> DefineClass_parse(toks, pos)
      [] T = "Ident" -> Ident_parse(toks, pos)
      [] T = "Expr" -> Expr_parse(toks, pos)
      [] T = "Number" -> Number_parse(toks, pos)
      [] T = "ClassName" -> ClassName_parse(toks, pos)
      [] T = "Local" -> Local_parse(toks, pos)
      [] T = "IVar" -> IVar_parse(toks, pos)
      [] T = "Selector" -> Selector_parse(toks, pos)
      [] T = "ClassNameSelector" -> ClassNameSelector_parse(toks, pos)
      [] T \in {"True", "False", "Self_"} -> Keyword_parse(toks, pos, T)
      [] T = "List" -> List_parse(toks, pos)
      [] T = "MessageSend" -> MessageSend_parse(toks, pos)
      [] T = "Argument" -> Argument_parse(toks, pos)
      [] T = "Block" -> Block_parse(toks, pos)
      [] T = "Parameter" -> Parameter_parse(toks, pos)
      [] T = "ClassNew" -> ClassNew_parse(toks, pos)

parse_NoEofTest(toks) ==
    parse_many(toks, 0, "Stmt")

\* parse::parse: a fresh stream, statements until none parses, then the EOF test
parse(toks) ==
    Then(parse_many(toks, 0, "Stmt"), LAMBDA stmts :
    IF ~at_eof(toks, stmts.pos)
    THEN ParsedErr(ParseError("Expected EOF, but wasn't"), stmts.pos)
    ELSE stmts)

(***************************************************************************)
(* Token sequences the parser is run on                                    *)
(***************************************************************************)
\* the longest token sequence parsed
MaxTokens == 19

\* the i-th token of a source text: tokens are apart, none is empty
TokenSpan(i) == Span(4 * i, 4 * i + 2)

\* the tokens lex() makes of a text, the i-th one at TokenSpan(i); lex() ends
\* the sequence with the last token of the text, it has no end-of-input token
Lexed(words) ==
    [i \in 1..Len(words) |->
        [f \in (DOMAIN words[i]) \cup {"span"} |->
            IF f = "span" THEN TokenSpan(i) ELSE words[i][f]]]

W(t) == [t |-> t]
N(name) == [t |-> "Name", name |-> name]
CN(name) == [t |-> "ClassName", name |-> name]
D(number) == [t |-> "Number", number |-> number]

\* let a = 1;
LetLocalText == <<W("Let"), N("a"), W("Eq"), D(1), W("Semicolon")>>
\* let @x = a;
LetIVarText == <<W("Let"), W("At"), N("x"), W("Eq"), N("a"), W("Semicolon")>>
\* return self;
ReturnText == <<W("Return"), W("Self_"), W("Semicolon")>>
\* [a m p: 1];
SendText ==
    <<W("OBracket"), N("a"), N("m"), N("p"), W("Colon"), D(1), W("CBracket"),
      W("Semicolon")>>
\* [#Dog m];
SelectorSendText ==
    <<W("OBracket"), W("Hash"), CN("Dog"), N("m"), W("CBracket"), W("Semicolon")>>
\* let a = [1, true];
ListText ==
    <<W("Let"), N("a"), W("Eq"), W("OBracket"), D(1), W("Comma"), W("True"),
      W("CBracket"), W("Semicolon")>>
\* let a = [];
EmptyListText ==
    <<W("Let"), N("a"), W("Eq"), W("OBracket"), W("CBracket"), W("Semicolon")>>
\* let a = [1,];
TrailingCommaText ==
    <<W("Let"), N("a"), W("Eq"), W("OBracket"), D(1), W("Comma"), W("CBracket"),
      W("Semicolon")>>
\* let a = [Dog new x: false];
NewText ==
    <<W("Let"), N("a"), W("Eq"), W("OBracket"), CN("Dog"), N("new"), N("x"), W("Colon"),
      W("False"), W("CBracket"), W("Semicolon")>>
\* [Dog def: #m do: |p:| { return p; }];
DefineMethodText ==
    <<W("OBracket"), CN("Dog"), N("def"), W("Colon"), W("Hash"), N("m"), N("do"),
      W("Colon"), W("Pipe"), N("p"), W("Colon"), W("Pipe"), W("OBrace"), W("Return"),
      N("p"), W("Semicolon"), W("CBrace"), W("CBracket"), W("Semicolon")>>
\* [Class subclass name: #Dog fields: [#x]];
DefineClassText ==
    <<W("OBracket"), CN("Class"), N("subclass"), N("name"), W("Colon"), W("Hash"),
      CN("Dog"), N("fields"), W("Colon"), W("OBracket"), W("Hash"), N("x"),
      W("CBracket"), W("CBracket"), W("Semicolon")>>

\* texts that are cut off at every token, and texts that are parsed whole
CutTexts == {LetLocalText, ReturnText, SendText, SelectorSendText}
WholeTexts ==
    {LetIVarText, ListText, EmptyListText, TrailingCommaText, NewText, DefineMethodText,
     DefineClassText,
     LetLocalText \o ReturnText, ReturnText \o SendText}

\* a token that begins no statement and ends none of the texts
Strays == {<<>>, <<W("CBrace")>>}

Cuts == UNION {{SubSeq(text, 1, n) : n \in 0..Len(text)} : text \in CutTexts}
ParseInputs ==
    {Lexed(words) : words \in {w \in {cut \o stray : cut \in Cuts, stray \in Strays}
                                        \cup WholeTexts :
                                   Len(w) <= MaxTokens}}

\* the variants of lex::Token and the node types that implement Parse
TokenTypes ==
    {"Let", "Self_", "Name", "ClassName", "Eq", "Number", "Semicolon", "OBracket",
     "CBracket", "OBrace", "CBrace", "OParen", "CParen", "Colon", "At", "Hash", "Comma",
     "Pipe", "True", "False", "Return"}
NodeTypes ==
    {"Stmt", "LetLocal", "LetIVar", "Return", "MessageSendStmt", "DefineMethod",
     "DefineClass", "Ident", "Expr", "Number", "ClassName", "Local", "IVar", "Selector",
     "ClassNameSelector", "True", "False", "Self_", "List", "MessageSend", "Argument",
     "Block", "Parameter", "ClassNew"}

(***************************************************************************)
(* The parser at work: calls on one ParseStream, and parse() itself        *)
(***************************************************************************)
ParseInit ==
    /\ tokens \in ParseInputs
    /\ current_position = 0
    /\ called = None
    /\ pc = "parse"
    /\ ast = <<>>
    /\ result = Running
    /\ idx = 1
    /\ table = EmptyMap
    /\ acc = EmptyMap
    /\ todo = {}
    /\ stack = <<>>
    /\ heap = <<>>
    /\ resolved = None

\* a method of the stream was called and came back with ret; a panic ends the run
Call(method, T, ret) ==
    /\ called' = [method |-> method, type |-> T, start |-> current_position, ret |-> ret]
    /\ IF ret.k = "Panic"
       THEN /\ result' = Panic("index out of bounds")
            /\ UNCHANGED current_position
       ELSE /\ current_position' = ret.pos
            /\ UNCHANGED result
    /\ UNCHANGED <<ast, pc, idx, table, acc, todo, stack, heap, resolved, tokens>>

TryParseToken ==
    /\ pc = "parse" /\ result = Running
    /\ \E T \in TokenTypes :
         \E ret \in {try_parse_token(tokens, current_position, T)} :
            Call("try_parse_token", T, ret)

TryParseNode ==
    /\ pc = "parse" /\ result = Running
    /\ \E T \in NodeTypes :
         \E ret \in {try_parse_node(tokens, current_position, T)} :
            Call("try_parse_node", T, ret)

\* main.rs: let ast = ok_or_exit!(parse(&tokens)), on a stream nothing has read
Parse ==
    /\ pc = "parse" /\ result = Running
    /\ called = None
    /\ \E ret \in {parse(tokens)} :
       /\ called' = [method |-> "parse", type |-> "Stmt", start |-> 0, ret |-> ret]
       /\ pc' = "parsed"
       /\ CASE ret.k = "Panic" ->
                 /\ result' = Panic("index out of bounds")
                 /\ UNCHANGED <<ast, current_position>>
            [] ret.k = "Err" ->
                 /\ result' = ret.error
                 /\ current_position' = ret.pos
                 /\ UNCHANGED ast
            [] ret.k = "Ok" ->
                 /\ result' = Ok
                 /\ current_position' = ret.pos
                 /\ ast' = ret.nodes
    /\ UNCHANGED <<idx, table, acc, todo, stack, heap, resolved, tokens>>

ParseNext == TryParseToken \/ TryParseNode \/ Parse

ParseSpec == ParseInit /\ [][ParseNext]_vars

(***************************************************************************)
(* What a program declares, read off the source text (the AST)             *)
(***************************************************************************)
ClassIdx == {i \in 1..Len(ast) : ast[i].k = "DefineClass"}
MethodIdx == {i \in 1..Len(ast) : ast[i].k = "DefineMethod"}

DeclaredNames == {ast[i].name : i \in ClassIdx}

\* the superclass name the program declares for class c ("" when undeclared)
DeclSuper(c) ==
    IF \E i \in ClassIdx : ast[i].name = c
    THEN ast[CHOOSE i \in ClassIdx : ast[i].name = c].super_class
    ELSE ""

\* the classes reached from c by following declared superclass names n times
RECURSIVE AncestorsOf(_, _)
AncestorsOf(c, n) ==
    IF n = 0 \/ c = "Object" \/ c \notin DeclaredNames
    THEN {}
    ELSE {DeclSuper(c)} \cup AncestorsOf(DeclSuper(c), n - 1)

Ancestors(c) == AncestorsOf(c, Len(ast) + 1)

\* the j-th statement declares a class whose name is already in the table
DupClassAt(j) ==
    /\ j \in ClassIdx
    /\ \/ ast[j].name = "Object"
       \/ \E i \in ClassIdx : i < j /\ ast[i].name = ast[j].name

\* the j-th statement defines a method its class already has
DupMethodAt(j) ==
    /\ j \in MethodIdx
    /\ \E i \in MethodIdx : /\ i < j
                            /\ ast[i].class_name = ast[j].class_name
                            /\ ast[i].method_name = ast[j].method_name

\* the class declarations are well formed: every name declared once, none
\* redeclares Object, every superclass is declared, no class is its own ancestor
ValidClasses ==
    /\ \A j \in ClassIdx : ~DupClassAt(j)
    /\ \A i \in ClassIdx : ast[i].super_class \in DeclaredNames \cup {"Object"}
    /\ \A c \in DeclaredNames : c \notin Ancestors(c)

MethodClassesDeclared ==
    \A i \in MethodIdx : ast[i].class_name \in DeclaredNames \cup {"Object"}

ValidProgram ==
    /\ ValidClasses
    /\ MethodClassesDeclared
    /\ \A j \in MethodIdx : ~DupMethodAt(j)

Finished == result # Running

\* the method the i-th statement defines is the one its class holds
Attached(i) ==
    /\ ast[i].class_name \in DOMAIN table
    /\ ast[i].method_name \in DOMAIN table[ast[i].class_name].methods
    /\ table[ast[i].class_name].methods[ast[i].method_name].span = ast[i].span

(***************************************************************************)
(* Claims about the evaluator                                              *)
(***************************************************************************)
ExecutedKinds == {"LetLocal", "LetIVar", "MessageSend", "Return"}

\* C1: in a method body, when the frame's pending return value is set and
\* the frame is at a following statement (LetLocal, LetIVar, MessageSendStmt
\* or a later Return), the statement is skipped: none of its expressions is
\* put under evaluation, no error is raised, and the frame's locals and
\* pending return value stay as they are.
C1_ReturnSkipsRest ==
    [][(/\ AtStmt(ExecutedKinds)
        /\ Len(stack) > 1
        /\ Top.return_value # None)
       => /\ result' = Running
          /\ Len(stack') = Len(stack)
          /\ stack'[Len(stack)].cur = NoCur
          /\ stack'[Len(stack)].locals = Top.locals
          /\ stack'[Len(stack)].return_value = Top.return_value]_vars

\* C2: a LetIVar that is executed in a method whose self is an instance (no
\* return is pending) is carried out: the run goes on, to store the value in
\* the instance's variable table where every alias reads it; it is never
\* aborted at the statement.
C2_IVarWriteVisible ==
    [][(/\ AtStmt({"LetIVar"})
        /\ Len(stack) > 1
        /\ Top.return_value = None
        /\ Top.self_ # None)
       => result' = Running]_vars

\* the New expression whose arguments have all been evaluated
NewBinding == Head(Top.kont)
NewLabels == {NewBinding.args[i].ident : i \in DOMAIN NewBinding.args}
NewFields == table[NewBinding.purpose.rc].fields

\* the value the argument labelled f evaluates to
NewArgument(f) ==
    LET arg == NewBinding.args[CHOOSE i \in DOMAIN NewBinding.args :
                                  NewBinding.args[i].ident = f]
    IN IF arg.expr.k = "Number"
       THEN ValueNumber(arg.expr.number)
       ELSE NewBinding.arg_values[f].value

\* C3: for a New of a declared class with field set F whose labels are
\* distinct and whose arguments have all been evaluated: when the label set is
\* F the instance is created, with every field bound to its argument's value;
\* when a field has no argument New fails with MissingArgument (naming such a
\* field); when every field is supplied and some label is no field New fails
\* with UnexpectedArgument (naming such a label).
C3_NewExactFields ==
    [][(/\ AtLoop("Args")
        /\ NewBinding.i > Len(NewBinding.args)
        /\ NewBinding.purpose.k = "New"
        /\ Cardinality(NewLabels) = Len(NewBinding.args))
       => IF NewLabels = NewFields
          THEN /\ result' = Running
               /\ heap' = Append(heap, Instance(NewBinding.purpose.rc,
                                                [f \in NewFields |-> NewArgument(f)]))
               /\ stack'[Len(stack)].cur = ValCur(ValueInstance(Len(heap')))
          ELSE IF NewFields \ NewLabels # {}
          THEN /\ result'.k = "MissingArgument"
               /\ result'.name \in NewFields \ NewLabels
               /\ heap' = heap
          ELSE /\ result'.k = "UnexpectedArgument"
               /\ result'.name \in NewLabels \ NewFields
               /\ heap' = heap]_vars

\* C3 witness: a class with the fields x and y was instantiated by a New that
\* names y first (argument 1) and x second (argument 2)
C3_Witness ==
    /\ pc = "interpret"
    /\ Len(heap) = 1
    /\ heap[1].class = "A"
    /\ DOMAIN heap[1].ivars = {"x", "y"}
    /\ heap[1].ivars["y"] = ValueNumber(1)
    /\ heap[1].ivars["x"] = ValueNumber(2)
    /\ "a" \in DOMAIN stack[1].locals
    /\ stack[1].locals["a"] = ValueInstance(1)

\* C11: a send that finds no method for the selector in the receiver's class
\* or any ancestor fails with UndefinedMethod whose class is the name of the
\* receiver's own class.
C11_UndefinedMethodNamesReceiver ==
    (pc = "interpret" /\ result.k = "UndefinedMethod")
    => /\ AtValueOf("Receiver")
       /\ Top.cur.v.k = "Instance"
       /\ result.class = heap[Top.cur.v.id].class

\* C12: a send whose receiver evaluated to a value that is no Instance
\* (Number, True, False, Nil, List) fails with MessageSentToNonInstance at the
\* span of the send; no frame is entered, no argument put under evaluation,
\* nothing allocated.
C12_NonInstanceReceiver ==
    [][(AtValue("Receiver") /\ Top.cur.v.k # "Instance")
       => /\ result' = MessageSentToNonInstance(Head(Top.kont).node.span)
          /\ stack' = stack
          /\ heap' = heap]_vars

\* C12 witness: a send that carries an argument failed on a Nil receiver
C12_Witness ==
    /\ pc = "interpret"
    /\ result.k = "MessageSentToNonInstance"
    /\ AtValueOf("Receiver")
    /\ Top.cur.v = ValueNil
    /\ Head(Top.kont).node.args # <<>>

\* C13: a New whose class name is no key of the class table fails with
\* ClassNotDefined naming that class (at the span of the class name); none of
\* its arguments is put under evaluation and no instance is created.
C13_NewOfUndefinedClass ==
    [][(AtExpr({"ClassNew"}) /\ Top.cur.e.class_name \notin DOMAIN table)
       => /\ result' = ClassNotDefined(Top.cur.e.class_name, Top.cur.e.class_name_span)
          /\ stack' = stack
          /\ heap' = heap]_vars

\* C13 witness: New of the undeclared class Z failed, its argument unevaluated
C13_Witness ==
    /\ pc = "interpret"
    /\ result = ClassNotDefined("Z", Span(5, 5))
    /\ Top.cur.t = "expr" /\ Top.cur.e.k = "ClassNew"
    /\ Top.cur.e.args # <<>>
    /\ heap = <<>>

\* a step that enters a method: a frame is pushed on a running evaluator
EntersMethod == Len(stack) >= 1 /\ Len(stack') = Len(stack) + 1

\* a step that leaves a method: the innermost frame is popped
LeavesMethod == Len(stack) > 1 /\ Len(stack') = Len(stack) - 1

\* C14: the frame a send creates has self = the receiver, locals = exactly
\* the map from the method's parameter names to the argument values, and no
\* pending return value; reading, in the method, a name that is no local of
\* the method's frame fails with UndefinedLocal even when the caller has a
\* local of that name; no step taken in a method changes the locals of the
\* frames underneath.
C14_FrameOfSend ==
    [][/\ EntersMethod =>
            LET K == Head(Top.kont)
                callee == stack'[Len(stack')]
                names == {K.parameters[i] : i \in DOMAIN K.parameters}
            IN /\ callee.self_ = Some(K.purpose.receiver)
               /\ heap[K.purpose.receiver.id].class \in DOMAIN table
               /\ callee.locals = [name \in names |-> K.arg_values[name].value]
               /\ callee.return_value = None
               /\ stack'[Len(stack)].locals = Top.locals
       /\ \A i \in 1..(Len(stack) - 1) : stack'[i].locals = stack[i].locals
       /\ (/\ AtExpr({"Local"})
           /\ Len(stack) > 1
           /\ Top.cur.e.name \notin DOMAIN Top.locals)
          => result' = UndefinedLocal(Top.cur.e.name, Top.cur.e.span)]_vars

\* C14 witness: in a method with parameter p, called with p: 7 by a caller
\* that has a local a, reading a failed with UndefinedLocal
C14_Witness ==
    /\ result.k = "UndefinedLocal" /\ result.name = "a"
    /\ Len(stack) = 2
    /\ "a" \in DOMAIN stack[1].locals
    /\ stack[2].self_ = Some(stack[1].locals["a"])
    /\ DOMAIN stack[2].locals = {"p"}
    /\ stack[2].locals["p"] = ValueNumber(7)

\* C15: a Return in a called method sets the pending return value of the
\* callee's frame only: no step changes the pending return value of a frame
\* underneath the running one, entering a method leaves the caller's as it is,
\* and when the method is left the send evaluates to the callee's pending
\* return value (Nil if none), the caller standing at the same statement with
\* the run going on; a frame without pending return value executes its next
\* LetLocal or MessageSendStmt.
C15_ReturnStaysInCallee ==
    [][/\ \A i \in 1..(Len(stack) - 1) : stack'[i].return_value = stack[i].return_value
       /\ EntersMethod => stack'[Len(stack)].return_value = Top.return_value
       /\ LeavesMethod =>
            LET caller == stack[Len(stack) - 1]
                value == IF Top.return_value = None THEN ValueNil ELSE Top.return_value.v
            IN /\ result' = Running
               /\ stack'[Len(stack')].ip = caller.ip
               /\ stack'[Len(stack')].cur = ValCur(value)
       /\ (AtStmt({"LetLocal", "MessageSend"}) /\ Top.return_value = None)
          => /\ result' = Running
             /\ stack'[Len(stack)].cur.t = "expr"]_vars

\* C15 witness: the method returned 1, the caller bound it to b, went on to
\* the statement after the send and has no pending return value itself
C15_Witness ==
    /\ pc = "interpret"
    /\ Len(stack) = 1
    /\ stack[1].return_value = None
    /\ DOMAIN stack[1].locals = {"a", "b", "c"}
    /\ stack[1].locals["b"] = ValueNumber(1)
    /\ stack[1].locals["c"] = ValueNumber(1)

\* C16: in a method, self evaluates to the handle the frame holds as self (no
\* copy is allocated), and no step changes the self of a frame; a method whose
\* body is `return self;` sent to the instance bound to a yields that very
\* instance; at top level self fails with NoSelf.
C16_SelfIsTheReceiver ==
    [][/\ (AtExpr({"Self_"}) /\ Len(stack) = 1) => result' = NoSelf(Top.cur.e.span)
       /\ (AtExpr({"Self_"}) /\ Len(stack) > 1)
          => /\ result' = Running
             /\ stack'[Len(stack)].cur = ValCur(Top.self_.v)
             /\ Top.self_.v.k = "Instance"
             /\ heap' = heap
       /\ \A i \in 1..Len(stack) : i <= Len(stack') => stack'[i].self_ = stack[i].self_
       /\ (/\ Len(ast) >= 4
           /\ ast[2].k = "DefineMethod"
           /\ ast[2].block.body = <<Return(Self_(NoSpan))>>
           /\ Len(stack') >= 1
           /\ "b" \in DOMAIN stack'[1].locals)
          => /\ stack'[1].locals["b"] = stack'[1].locals["a"]
             /\ stack'[1].locals["b"] = ValueInstance(1)
             /\ Len(heap') = 1]_vars

\* C16 witness: `return self;` sent to the constructed instance gave it back
C16_Witness ==
    /\ pc = "interpret"
    /\ Len(stack) = 1
    /\ ast[2].k = "DefineMethod"
    /\ ast[2].block.body = <<Return(Self_(NoSpan))>>
    /\ "b" \in DOMAIN stack[1].locals
    /\ stack[1].locals["b"] = ValueInstance(1)
    /\ stack[1].locals["a"] = ValueInstance(1)

(***************************************************************************)
(* Claims about method resolution                                          *)
(***************************************************************************)
\* the superclass chain of c: c, its superclass, ... up to the root
RECURSIVE Chain(_)
Chain(c) ==
    IF table[c].super_class = None THEN <<c>> ELSE <<c>> \o Chain(table[c].super_class.rc)

\* the positions in the chain of c of the classes that define msg
DefinedAt(c, msg) ==
    {n \in 1..Len(Chain(c)) : msg \in DOMAIN table[Chain(c)[n]].methods}

\* C4: resolving selector msg on class c returns the method of the class
\* nearest to c in the chain c, c's superclass, ... that defines msg (so the
\* most-derived definition wins over an ancestor's), and UndefinedMethod
\* when no class of the chain defines it.
C4_MostDerivedFirst ==
    resolved # None =>
        LET c == resolved.class
            msg == resolved.msg
            at == DefinedAt(c, msg)
        IN IF at = {}
           THEN resolved.answer.k = "UndefinedMethod"
           ELSE LET n == CHOOSE n \in at : \A o \in at : n <= o
                IN /\ resolved.answer.k = "Ok"
                   /\ resolved.answer.found = table[Chain(c)[n]].methods[msg]

\* C4 witness: B extends A extends Object, A and Object define m, B does not;
\* m resolved on B is A's method
C4_Witness ==
    /\ resolved # None
    /\ resolved.class = "B" /\ resolved.msg = "m"
    /\ table["B"].super_class = SomeClass("A")
    /\ "m" \notin DOMAIN table["B"].methods
    /\ "m" \in DOMAIN table["A"].methods
    /\ "m" \in DOMAIN table["Object"].methods
    /\ resolved.answer.k = "Ok"
    /\ resolved.answer.found.span = StmtSpan(1)

(***************************************************************************)
(* Claims about the class-table builder                                    *)
(***************************************************************************)

\* C5: a well-formed program in which a class and one of its ancestors
\* (Object included) each define a method of the same name is accepted: the
\* builder returns a table, no error, and both classes hold their own method.
C5_OverrideAccepted ==
    (/\ ValidProgram
     /\ \E i, j \in MethodIdx :
            /\ ast[i].method_name = ast[j].method_name
            /\ ast[j].class_name \in Ancestors(ast[i].class_name))
    => /\ Finished => result = Ok
       /\ result = Ok => \A i \in MethodIdx : Attached(i)

\* C6: when the class declarations are well formed, every earlier method
\* definition names a declared class, and statement j is the first to define
\* a method its class already got from statement i, the builder fails with
\* MethodAlreadyDefined(first_span = span of i, second_span = span of j) and
\* the class still holds the definition of statement i.
C6_DuplicateMethod ==
    \A i, j \in MethodIdx :
        (/\ i < j
         /\ ast[i].class_name = ast[j].class_name
         /\ ast[i].method_name = ast[j].method_name
         /\ ValidClasses
         /\ \A h \in MethodIdx :
                h < j => /\ ~DupMethodAt(h)
                         /\ ast[h].class_name \in DeclaredNames \cup {"Object"}
         /\ Finished)
        => /\ result = MethodAlreadyDefined(ast[j].class_name, ast[j].method_name,
                                            ast[i].span, ast[j].span)
           /\ Attached(i)

\* C7: when statement j is the first DefineClass whose name is already in the
\* table, and that name was declared by the earlier statement i, the builder
\* fails in its first pass with ClassAlreadyDefined(first_span = span of i,
\* second_span = span of j), whatever other declarations the program holds;
\* a program with any repeated class name never gets past the first pass.
C7_DuplicateClass ==
    \A j \in ClassIdx :
        (DupClassAt(j) /\ \A h \in ClassIdx : h < j => ~DupClassAt(h))
        => /\ pc = "find_classes"
           /\ idx <= j
           /\ Finished =>
                /\ result.k = "ClassAlreadyDefined"
                /\ result.class = ast[j].name
                /\ result.second_span = ast[j].span
                /\ \A i \in ClassIdx :
                     (i < j /\ ast[i].name = ast[j].name)
                     => result.first_span = ast[i].span

\* C7 witness: the duplicate is reported with both statements' spans, an
\* unrelated declaration standing between the two
C7_Witness ==
    /\ result.k = "ClassAlreadyDefined"
    /\ Len(ast) = 3
    /\ result.first_span = StmtSpan(1)
    /\ result.second_span = StmtSpan(3)
    /\ ast[2].k = "DefineClass"

\* C8: for a well-formed program in which class B names a user-declared
\* class A as superclass, the builder succeeds and B's superclass handle is
\* A's descriptor, whether A is declared before or after B.
C8_SuperClassLinked ==
    (/\ ValidProgram
     /\ \E i \in ClassIdx : ast[i].super_class \in DeclaredNames)
    => /\ Finished => result = Ok
       /\ result = Ok => \A i \in ClassIdx :
                            table[ast[i].name].super_class = SomeClass(ast[i].super_class)

MissingSuper(c) == c # "Object" /\ table[c].super_class_name \notin DOMAIN table

\* C9: when a non-Object class of the table names a superclass that is not in
\* the table, linking never gets to its patch loop; it ends in the lookup loop
\* with ClassNotDefined naming a missing superclass at the span of the class
\* that names it, and no descriptor has a superclass handle at that point.
C9_MissingSuperClass ==
    /\ (pc # "find_classes" /\ \E c \in DOMAIN table : MissingSuper(c))
       => /\ pc = "lookup"
          /\ \A d \in DOMAIN table : table[d].super_class = None
          /\ todo = {} => Finished
    /\ (pc = "lookup" /\ Finished)
       => /\ \E c \in DOMAIN table :
                /\ MissingSuper(c)
                /\ result = ClassNotDefined(table[c].super_class_name, table[c].span)
          /\ \A d \in DOMAIN table : table[d].super_class = None

\* C9 witness: linking failed on one class although another class, whose
\* superclass is in the table, had been looked up before
C9_Witness ==
    /\ pc = "lookup"
    /\ result.k = "ClassNotDefined"
    /\ DOMAIN acc # {}

\* C10: for well-formed class declarations and no method defined twice, every
\* DefineMethod of a declared class ends up attached to that class, whether it
\* stands before or after the class's declaration; if a DefineMethod names a
\* class declared nowhere the builder fails with ClassNotDefined.
C10_MethodAttached ==
    (ValidClasses /\ MethodIdx # {} /\ (\A j \in MethodIdx : ~DupMethodAt(j)) /\ Finished)
    => IF MethodClassesDeclared
       THEN result = Ok /\ \A i \in MethodIdx : Attached(i)
       ELSE result.k = "ClassNotDefined"

(***************************************************************************)
(* Claims about the parser                                                 *)
(***************************************************************************)
\* the tokens are those of one statement with at least its last token missing
Truncated ==
    \E text \in CutTexts :
        \E n \in 1..(Len(text) - 1) : tokens = Lexed(SubSeq(text, 1, n))

\* C17: parsing a token sequence that ends in the middle of a statement
\* returns a parse failure with an expected-token message and no AST; it does
\* not abort, and no part of the statement stays consumed
C17_TruncatedStatementFails ==
    (pc = "parsed" /\ Truncated)
    => /\ result.k = "ParseError"
       /\ result.msg \in {"Expected but got", "Expected EOF, but wasn't"}
       /\ ast = <<>>
       /\ current_position = 0

\* C18: try_parse_node and try_parse_token backtrack fully: a call that comes
\* back with no match leaves the cursor where it was before the call, and a call
\* that comes back with a match leaves it where the parse advanced to, which is
\* not before the start
C18_TryBacktracks ==
    [][(called' # called /\ called'.method \in {"try_parse_node", "try_parse_token"})
       => /\ called'.start = current_position
          /\ called'.ret.k = "None" => current_position' = current_position
          /\ called'.ret.k = "Some" => current_position' >= current_position]_vars

\* a try_parse_node whose attempt read at least two tokens before it failed
C18_Witness ==
    /\ called # None
    /\ called.method = "try_parse_node"
    /\ called.ret.k = "None"
    /\ parse_node(tokens, called.start, called.type).k = "Err"
    /\ parse_node(tokens, called.start, called.type).pos >= called.start + 2
    /\ current_position = called.start

\* what parse_many::<Stmt> makes of the tokens from the start of the stream
LeadingStmts == parse_many(tokens, 0, "Stmt")

\* C19: parse returns an AST only if the repeated statement parse read every
\* token; when it stops with tokens left over, parse returns the expected-EOF
\* failure and no AST, whether or not leading statements parsed
C19_LeftoverTokensFail ==
    pc = "parsed"
    => /\ result = Ok => /\ current_position = Len(tokens)
                         /\ ast = LeadingStmts.nodes
       /\ (LeadingStmts.k = "Ok" /\ LeadingStmts.pos < Len(tokens))
          => /\ result = ParseError("Expected EOF, but wasn't")
             /\ ast = <<>>

\* parse failed on leftover tokens after at least one statement had parsed
C19_Witness ==
    /\ pc = "parsed"
    /\ result.k = "ParseError"
    /\ LeadingStmts.k = "Ok"
    /\ Len(LeadingStmts.nodes) >= 1
    /\ LeadingStmts.pos < Len(tokens)

\* the nodes a node is made of, by its kind
Children(n) ==
    CASE n.k \in {"LetLocal", "LetIVar"} -> <<n.ident, n.body>>
      [] n.k \in {"Return", "MessageSendStmt"} -> <<n.expr>>
      [] n.k = "DefineMethod" -> <<n.class_name, n.method_name, n.block>>
      [] n.k = "DefineClass" -> <<n.name>> \o n.fields
      [] n.k \in {"Local", "IVar", "Selector", "Parameter"} -> <<n.ident>>
      [] n.k = "ClassNameSelector" -> <<n.class_name>>
      [] n.k = "List" -> n.items
      [] n.k = "MessageSend" -> <<n.receiver, n.msg>> \o n.args
      [] n.k = "Argument" -> <<n.ident, n.expr>>
      [] n.k = "Block" -> n.parameters \o n.body
      [] n.k = "ClassNew" -> <<n.class_name>> \o n.args
      [] OTHER -> <<>>

\* the given nodes and every node below them
RECURSIVE NodesOf(_)
NodesOf(nodes) ==
    IF Len(nodes) = 0
    THEN <<>>
    ELSE <<Head(nodes)>> \o NodesOf(Children(Head(nodes))) \o NodesOf(Tail(nodes))

\* node n is what its Parse impl makes of the tokens first..last (1-based), and
\* its span runs from the start of token first to the end of token last
ExactSpan(n, first, last) ==
    /\ n.span = Span(tokens[first].span.from, tokens[last].span.to)
    /\ try_parse_node(tokens, first - 1, n.k) = ParsedSome(n, last)

\* every node among the given ones, at any depth, has the exact span of the
\* tokens it was parsed from, and these lie between tokens first and last
AllExact(nodes, first, last) ==
    \A i \in 1..Len(NodesOf(nodes)) :
        \E a \in first..last : \E b \in a..last : ExactSpan(NodesOf(nodes)[i], a, b)

\* C20: every node the parser produces carries the span from the start of the
\* first token it consumed to the end of the last token it consumed, and so does
\* every node inside it; no span reaches outside the tokens consumed for the node
C20_SpansExact ==
    /\ (called # None /\ called.method = "try_parse_node" /\ called.ret.k = "Some")
       => /\ ExactSpan(called.ret.node, called.start + 1, current_position)
          /\ AllExact(<<called.ret.node>>, called.start + 1, current_position)
    /\ (pc = "parsed" /\ result = Ok) => AllExact(ast, 1, Len(tokens))

\* a LetLocal was parsed, and so were the nodes it is made of
C20_Witness ==
    /\ called # None
    /\ called.method = "try_parse_node"
    /\ called.type = "LetLocal"
    /\ called.ret.k = "Some"
    /\ called.ret.node.span = Span(TokenSpan(called.start + 1).from,
                                   TokenSpan(current_position).to)
    /\ Len(NodesOf(<<called.ret.node>>)) >= 3

(***************************************************************************)
(* Claims about main: the order of the stages                              *)
(***************************************************************************)
\* the table builder has ended in an error (or a panic) and the evaluator has
\* not been started
BuilderFailed == pc # "interpret" /\ result.k \notin {"None", "Ok"}

\* C21: the stages run in order and the first failure stops the pipeline: until
\* the table is built no frame and no instance exists, and once the builder has
\* failed nothing changes any more, so no statement of the program is evaluated
C21_FirstFailureStops ==
    [][/\ pc' # "interpret" => (stack' = <<>> /\ heap' = <<>>)
       /\ BuilderFailed => vars' = vars]_vars

\* the builder rejected a program whose first statement would fail at run time
C21_Witness ==
    /\ BuilderFailed
    /\ result.k \in {"ClassAlreadyDefined", "MethodAlreadyDefined", "ClassNotDefined"}
    /\ Len(ast) >= 2
    /\ ast[1].k = "LetLocal" /\ ast[1].body.k = "Local"
    /\ stack = <<>>

(***************************************************************************)
(* Claims about argument binding                                           *)
(***************************************************************************)
ArgLabels(args) == {args[i].ident : i \in DOMAIN args}
Omitted(declared, args) == {i \in DOMAIN declared : declared[i] \notin ArgLabels(args)}
FirstOmitted(declared, args) ==
    declared[CHOOSE i \in Omitted(declared, args) : \A j \in Omitted(declared, args) : i <= j]

\* C22: a MissingArgument error names the first omitted name in declaration
\* order: of the fields of the class for a New, of the parameters of the method
\* for a message send
C22_MissingNamesFirstDeclared ==
    (pc = "interpret" /\ result.k = "MissingArgument" /\ Len(ast) >= 4
       /\ ast[1].k = "DefineClass" /\ ast[2].k = "DefineMethod"
       /\ ast[3].k = "LetLocal" /\ ast[3].body.k = "ClassNew")
    => IF Omitted(ast[1].fields, ast[3].body.args) # {}
       THEN result.name = FirstOmitted(ast[1].fields, ast[3].body.args)
       ELSE (ast[4].k = "LetLocal" /\ ast[4].body.k = "MessageSend")
            => result.name = FirstOmitted(ast[2].block.parameters, ast[4].body.args)

(***************************************************************************)
(* Claims about instance-variable access                                   *)
(***************************************************************************)
\* Eval::eval is about to run on `@name`
AtIVar == Interpreting /\ Top.cur.t = "expr" /\ Top.cur.e.k = "IVar"

\* the step left the frames below the top, the heap and the top frame's locals,
\* self and pending return value as they were
OnlyCurChanged ==
    /\ heap' = heap
    /\ Len(stack') = Len(stack)
    /\ \A i \in 1..(Len(stack) - 1) : stack'[i] = stack[i]
    /\ stack'[Len(stack)].locals = Top.locals
    /\ stack'[Len(stack)].self_ = Top.self_
    /\ stack'[Len(stack)].return_value = Top.return_value

ListsOf(nodes) ==
    {NodesOf(nodes)[i] : i \in {j \in 1..Len(NodesOf(nodes)) : NodesOf(nodes)[j].k = "List"}}

\* the 1-based index of the token a span ends with
LastTokenOf(span) == CHOOSE i \in 1..Len(tokens) : tokens[i].span.to = span.to

\* the List has an item and no comma stands directly before its closing bracket
ProperList(n) ==
    /\ Len(n.items) >= 1
    /\ tokens[LastTokenOf(n.span)].t = "CBracket"
    /\ tokens[LastTokenOf(n.span) - 1].t # "Comma"

\* C24: a List is parsed only from tokens of the form `[` Expr (`,` Expr)* `]`:
\* every List node returned has at least one item and no trailing comma
C24_ListForm ==
    /\ (called # None /\ called.method = "try_parse_node" /\ called.ret.k = "Some")
       => \A n \in ListsOf(<<called.ret.node>>) : ProperList(n)
    /\ (pc = "parsed" /\ result = Ok) => \A n \in ListsOf(ast) : ProperList(n)

(***************************************************************************)
(* Claims about the order of the builder's passes                          *)
(***************************************************************************)
\* class i names a superclass the program does not declare
MissingSuperAt(i) ==
    i \in ClassIdx /\ ast[i].super_class \notin DeclaredNames \cup {"Object"}

ClassLevelError == \E i \in ClassIdx : DupClassAt(i) \/ MissingSuperAt(i)
MethodLevelError ==
    \E j \in MethodIdx :
        DupMethodAt(j) \/ ast[j].class_name \notin DeclaredNames \cup {"Object"}

\* the error is one of the class pass: a duplicate class, or the missing
\* superclass of a class, reported at that class's declaration
ClassLevelResult ==
    \/ result.k = "ClassAlreadyDefined"
    \/ /\ result.k = "ClassNotDefined"
       /\ \E i \in ClassIdx : /\ MissingSuperAt(i)
                               /\ result.class = ast[i].super_class
                               /\ result.span = ast[i].span

\* C25: classes are collected and linked for the whole program before any
\* DefineMethod is looked at: no class has a method until the method pass has
\* started, and a program with a class-level and a method-level error ends
\* with the class-level error
C25_ClassErrorsFirst ==
    /\ pc # "find_methods" => \A c \in DOMAIN table : table[c].methods = EmptyMap
    /\ (Finished /\ ClassLevelError /\ MethodLevelError) => ClassLevelResult

\* the method-level error stands first in the source, the class-level error
\* after it, and the class-level error is returned
C25_Witness ==
    /\ Finished /\ ClassLevelError /\ MethodLevelError /\ ClassLevelResult
    /\ Len(ast) >= 2
    /\ ast[1].k = "DefineMethod"
    /\ ast[1].class_name \notin DeclaredNames \cup {"Object"}

(***************************************************************************)
(* Claims about self in the frames of the evaluator                        *)
(***************************************************************************)
\* C26: in every frame reachable from the top-level interpreter self is absent
\* or an Instance: absent exactly in the top-level frame, the receiver instance
\* in every method frame; instance-variable access never meets another self
C26_SelfAbsentOrInstance ==
    [][/\ \A i \in 1..Len(stack') : (i = 1) <=> (stack'[i].self_ = None)
       /\ \A i \in 2..Len(stack') : /\ stack'[i].self_.v.k = "Instance"
                                     /\ stack'[i].self_.v.id \in 1..Len(heap')
       /\ EntersMethod
          => /\ AtLoop("Args") /\ Head(Top.kont).purpose.k = "Send"
             /\ stack'[Len(stack')].self_ = Some(Head(Top.kont).purpose.receiver)
       /\ (AtIVar /\ Top.self_ # None) => Top.self_.v.k = "Instance"]_vars

\* `@x` is about to be read in the frame of a method whose receiver is the
\* instance the top-level local a holds
C26_Witness ==
    /\ Len(stack) = 2
    /\ Interpreting /\ Top.cur.t = "expr" /\ Top.cur.e.k = "IVar"
    /\ Top.self_ # None /\ Top.self_.v.k = "Instance"
    /\ "a" \in DOMAIN stack[1].locals /\ Top.self_.v = stack[1].locals["a"]
    /\ stack[1].self_ = None

(***************************************************************************)
(* Claims about the cursor of the stream                                   *)
(***************************************************************************)
\* C27: while parse() runs the cursor stays within 0..Len(tokens) and no token
\* is read at a position that is not smaller than Len(tokens): parse() never
\* ends in the out-of-bounds panic of parse_token or try_parse_token
C27_CursorInBounds ==
    /\ current_position \in 0..Len(tokens)
    /\ (called # None /\ called.method = "parse") => called.ret.k # "Panic"

(***************************************************************************)
(* Claims about the order in which a message send fails                    *)
(***************************************************************************)
\* the program is one of those whose fourth statement is the send under test
OrderProgram ==
    /\ Len(ast) = 4
    /\ ast[4].k = "LetLocal" /\ ast[4].body.k = "MessageSend"
    /\ ast[4].body.span = OrderSpan
OrderSend == ast[4].body

\* what the send has against it, read off the program
ReceiverFails == OrderSend.receiver.name \notin {ast[3].ident}
ReceiverNotInstance == ast[3].body.k # "ClassNew"
MethodUndefined == OrderSend.msg # ast[2].method_name
FailingArgs == {i \in DOMAIN OrderSend.args : OrderSend.args[i].expr.k = "Local"}
FirstFailingArg == CHOOSE i \in FailingArgs : \A j \in FailingArgs : i <= j
UnexpectedLabels ==
    ArgLabels(OrderSend.args)
        \ {ast[2].block.parameters[i] : i \in DOMAIN ast[2].block.parameters}

\* the arguments of the pending send that have been evaluated so far
ArgsEvaluated == Head(Top.kont).i - 1

\* C28: a send fails for the first reason that applies, in the order receiver
\* expression, receiver not an instance, undefined method, argument expression
\* (in source order), missing argument, unexpected argument; no argument is
\* evaluated before the method is found, all of them before one is missed
C28_SendFailureOrder ==
    (OrderProgram /\ pc = "interpret" /\ result # Running)
    => IF ReceiverFails
       THEN /\ result = UndefinedLocal(OrderSend.receiver.name, NoSpan)
            /\ Head(Top.kont).k = "Receiver"
       ELSE IF ReceiverNotInstance
       THEN /\ result = MessageSentToNonInstance(OrderSpan)
            /\ AtValueOf("Receiver")
       ELSE IF MethodUndefined
       THEN /\ result.k = "UndefinedMethod" /\ result.span = OrderSpan
            /\ AtValueOf("Receiver")
       ELSE IF FailingArgs # {}
       THEN /\ result = UndefinedLocal(OrderSend.args[FirstFailingArg].expr.name, NoSpan)
            /\ Head(Top.kont).k = "Args" /\ ArgsEvaluated = FirstFailingArg - 1
       ELSE IF Omitted(ast[2].block.parameters, OrderSend.args) # {}
       THEN /\ result = MissingArgument(
                            FirstOmitted(ast[2].block.parameters, OrderSend.args), OrderSpan)
            /\ Head(Top.kont).k = "Args" /\ ArgsEvaluated = Len(OrderSend.args)
       ELSE IF UnexpectedLabels # {}
       THEN /\ result.k = "UnexpectedArgument" /\ result.name \in UnexpectedLabels
            /\ Head(Top.kont).k = "Args" /\ ArgsEvaluated = Len(OrderSend.args)
       ELSE result = Ok

\* a send that misses p and gives the unexpected q has failed for the missing p
C28_Witness ==
    /\ OrderProgram /\ pc = "interpret"
    /\ ~ReceiverFails /\ ~ReceiverNotInstance /\ ~MethodUndefined
    /\ UnexpectedLabels # {}
    /\ result.k = "MissingArgument" /\ result.name = "p"

(***************************************************************************)
(* Claims about a return at top level                                      *)
(***************************************************************************)
\* the top-level interpreter has a pending return value, and what is left of
\* the program are LetLocal and MessageSendStmt statements
TopLevelReturned ==
    /\ pc = "interpret" /\ Len(stack) >= 1
    /\ stack[1].return_value # None
    /\ \A i \in stack[1].ip..Len(ast) : ast[i].k \in {"LetLocal", "MessageSend"}

\* C29: a Return executed at top level sets the pending return value of the
\* top-level interpreter; from then on the later top-level LetLocal and
\* MessageSendStmt statements are skipped: the top-level locals do not change,
\* no expression is evaluated, no method frame is entered, nothing fails
C29_TopLevelReturnSkips ==
    [][/\ (Len(stack) = 1 /\ AtValue("Return"))
          => stack'[1].return_value = Some(Top.cur.v)
       /\ TopLevelReturned
          => /\ Len(stack') = 1
             /\ stack'[1].locals = stack[1].locals
             /\ stack'[1].return_value = stack[1].return_value
             /\ stack'[1].cur = NoCur /\ stack'[1].kont = <<>>
             /\ heap' = heap
             /\ result' \in {Running, Ok}]_vars

\* the program has ended after its top-level return, with a send to the local
\* a and a rebinding of a both passed over
C29_Witness ==
    /\ TopLevelReturned /\ result = Ok
    /\ stack[1].ip > Len(ast)
    /\ \E i, j \in 1..Len(ast) :
          /\ ast[i].k = "Return" /\ i < j
          /\ ast[j] = [LetLocal("a", Num(2)) EXCEPT !.span = ast[j].span]
          /\ \E l \in (i + 1)..Len(ast) : ast[l].k = "MessageSend"
    /\ stack[1].locals["a"] = stack[1].return_value.v

(***************************************************************************)
(* Claims about cycles in the superclass chain                             *)
(***************************************************************************)
\* following superclass handles from class c ends, within n steps, at a class
\* without a handle, and that class is Object
RECURSIVE EndsAtObject(_, _)
EndsAtObject(c, n) ==
    IF table[c].super_class = None
    THEN c = "Object"
    ELSE n > 0 /\ EndsAtObject(table[c].super_class.rc, n - 1)

\* some declared class is its own ancestor by the declared superclass names
CyclicProgram == \E c \in DeclaredNames : c \in Ancestors(c)

\* C30: a returned table has no cyclic superclass chain: from every class the
\* handles lead to Object, which has none, so get_method_named comes back for
\* every class and selector; a program with a class that is its own ancestor
\* yields no table
C30_NoCyclicTable ==
    result = Ok
    => /\ ~CyclicProgram
       /\ table["Object"].super_class = None
       /\ \A c \in DOMAIN table :
             /\ EndsAtObject(c, Cardinality(DOMAIN table))
             /\ \A sel \in {"m", "k"} :
                   get_method_named(table, c, sel, Span(0, 0)).k
                       \in {"Ok", "UndefinedMethod"}

\* two classes that name each other as superclass: the builder has ended in
\* the panic of Rc::get_mut and has returned no table
C30_Witness ==
    /\ Finished /\ result.k = "Panic"
    /\ DeclSuper("A") = "B" /\ DeclSuper("B") = "A"
    /\ "A" \in Ancestors("A")

====
